---- MODULE Spec2Model ----
(***************************************************************************)
(* A model of momxml (lofar-obs-xml): the specification tree of            *)
(* observationspecificationbase.py, the averaging pipeline and NDPPP of    *)
(* pipelines.py, the beam of beam.py and the Observation of                *)
(* observation.py with the helpers of utilities.py and momformats.py.      *)
(*                                                                         *)
(* Python strings are sequences of one-character strings, so that          *)
(* formatting and joining are computed and not assumed.  A call that can   *)
(* raise returns a record [ok, val, err]: err is the exception class.      *)
(***************************************************************************)
EXTENDS Integers, Sequences, FiniteSets, TLC

\* ------------------------------------------------------------------ bounds
NumNodes   == 3
MaxAppends == 3
NumObs     == 2
NumBeams   == 2
MaxInputs  == 2
MaxBeams   == 2
MaxStep    == 4
MaxRows    == 3
MaxItems   == 3

\* ------------------------------------------------------------ Python values
None == 0

NoneList == [is_none |-> TRUE, list |-> <<>>]

NoneStr == [is_none |-> TRUE, str |-> <<>>]

Str(s) == [is_none |-> FALSE, str |-> s]

List(s) == [is_none |-> FALSE, list |-> s]

Ok(v) == [ok |-> TRUE, val |-> v, err |-> ""]

Raise(e, dflt) == [ok |-> FALSE, val |-> dflt, err |-> e]

Elems(list) == {list[i] : i \in 1..Len(list)}

Digit(d) == <<"0", "1", "2", "3", "4", "5", "6", "7", "8", "9">>[d + 1]

RECURSIVE Str_d(_)
Str_d(i) == IF i < 10 THEN <<Digit(i)>> ELSE Str_d(i \div 10) \o <<Digit(i % 10)>>

\* ------------------------------------------------------------------- state
VARIABLES
    name,       \* node -> its name, a string
    parent,     \* node -> its parent node, or None
    children,   \* node -> None or the list of its children
    last_call,  \* the call made by the last step
    input_data,         \* the AveragingPipeline's input_data: None or a list
    predecessor_label,  \* the AveragingPipeline's predecessor_label
    obs,        \* the last Observation(...) call: arguments, object or exception
    emitted,    \* what the last xml call on that Observation or its beams emitted
    ndppp,      \* the last NDPPP(...) call: arguments, object or exception
    call        \* the last call of a function: its name, arguments and result

tree_vars == <<name, parent, children, last_call>>

pipeline_vars == <<input_data, predecessor_label>>

observation_vars == <<obs, emitted>>

vars == <<name, parent, children, last_call, input_data, predecessor_label,
          obs, emitted, ndppp, call>>

Nodes == DOMAIN name

Names == { <<"A">>, <<"C", " ", "A">> }

NoCall == [op |-> "none", self |-> None, instance |-> None]

\* ObservationSpecificationBase.__init__ as the subclasses call it:
\* parent = None, children = None.
OSB_init(nodes) ==
    /\ name \in [nodes -> Names]
    /\ parent = [n \in nodes |-> None]
    /\ children = [n \in nodes |-> NoneList]

NoPipeline ==
    /\ input_data = NoneList
    /\ predecessor_label = NoneStr

\* A Python value: its type, and its text (a str) or its number (an int; a
\* float in tenths; the length of a tuple or a list).
PyStr(s) == [t |-> "str", s |-> s, i |-> 0]

PyInt(i) == [t |-> "int", s |-> "", i |-> i]

PyFloat10(tenths) == [t |-> "float", s |-> "", i |-> tenths]

PyTuple(len) == [t |-> "tuple", s |-> "", i |-> len]

PyList(len) == [t |-> "list", s |-> "", i |-> len]

PyNone == [t |-> "NoneType", s |-> "", i |-> 0]

\* An exception: its class and, of its message, the field it names and the
\* allowed values it lists.
Exc(err, field, listed) == [err |-> err, field |-> field, listed |-> listed]

NoExc == Exc("", "", <<>>)

NoFields == [antenna_set |-> PyNone, frequency_range |-> PyNone,
             start_date |-> PyNone, clock_mhz |-> PyNone, bit_mode |-> PyNone,
             beam_list |-> <<>>, backend |-> PyNone]

NoEmitted == [by |-> "none", ok |-> TRUE, err |-> "", document |-> <<>>,
              antenna |-> "",
              instrumentFilter |-> "", beams |-> <<>>]

NoObservation ==
    /\ obs = [state |-> "none", args |-> NoFields, self |-> NoFields, exc |-> NoExc]
    /\ emitted = NoEmitted

NoSteps == [avg_freq_step |-> PyNone, avg_time_step |-> PyNone,
            demix_freq_step |-> PyNone, demix_time_step |-> PyNone]

NoNDPPP == ndppp = [state |-> "none", args |-> NoSteps, self |-> NoSteps, exc |-> NoExc]

NoFunctionCall == call = [op |-> "none"]

Init ==
    /\ OSB_init(1..NumNodes)
    /\ last_call = NoCall
    /\ NoPipeline
    /\ NoObservation
    /\ NoNDPPP
    /\ NoFunctionCall

\* ------------------------------------------------- append_child / set_parent
set_parent(self, instance) == [parent EXCEPT ![self] = instance]

append_child_children_prepend(self, instance) ==
    LET old == IF children[self].is_none THEN <<>> ELSE children[self].list
    IN  [children EXCEPT ![self] = List(<<instance>> \o old)]

append_child_children(self, instance) ==
    LET old == IF children[self].is_none THEN <<>> ELSE children[self].list
    IN  [children EXCEPT ![self] = List(Append(old, instance))]

append_child(self, instance) ==
    /\ children' = append_child_children(self, instance)
    /\ parent' = set_parent(instance, self)
    /\ UNCHANGED name
    /\ last_call' = [op |-> "append_child", self |-> self, instance |-> instance]

RECURSIVE SumLen(_, _)
SumLen(f, S) ==
    IF S = {} THEN 0
    ELSE LET n == CHOOSE x \in S : TRUE
         IN  Len(f[n].list) + SumLen(f, S \ {n})

TotalChildren == SumLen(children, Nodes)

AppendChild ==
    \E p \in Nodes, c \in Nodes :
        /\ TotalChildren < MaxAppends
        /\ append_child(p, c)
        /\ UNCHANGED <<pipeline_vars, observation_vars, ndppp, call>>

\* ------------------------------------------------------------- tree_depth
\* A chain of parents without a cycle is shorter than Fuel; a longer walk is
\* a cycle, where Python ends with RuntimeError (maximum recursion depth).
Fuel == Cardinality(Nodes) + 1

RECURSIVE tree_depth_rec(_, _)
tree_depth_rec(self, fuel) ==
    IF fuel = 0 THEN Raise("RuntimeError", 0)
    ELSE IF parent[self] = None THEN Ok(0)
    ELSE LET up == tree_depth_rec(parent[self], fuel - 1)
         IN  IF up.ok THEN Ok(up.val + 1) ELSE up

tree_depth(self) == tree_depth_rec(self, Fuel)

\* ---------------------------------------------------------------- child_id
\* id[child]: the builtin function id is subscripted, not called.
id_subscript(child) == Raise("TypeError", 0)

\* list.index(x): the first position (from 0) holding x, else ValueError.
list_index(list, x) ==
    IF \E i \in 1..Len(list) : list[i] = x
    THEN Ok((CHOOSE i \in 1..Len(list) :
                /\ list[i] = x
                /\ \A j \in 1..(i - 1) : list[j] # x) - 1)
    ELSE Raise("ValueError", 0)

child_id(self, instance) ==
    IF children[self].is_none \/ Len(children[self].list) = 0
    THEN Raise("ValueError", 0)
    ELSE LET kids == children[self].list
             ids  == [i \in 1..Len(kids) |-> id_subscript(kids[i])]
         IN  IF \E i \in 1..Len(kids) : ~ids[i].ok
             THEN ids[CHOOSE i \in 1..Len(kids) :
                        ~ids[i].ok /\ \A j \in 1..(i - 1) : ids[j].ok]
             ELSE list_index([i \in 1..Len(kids) |-> ids[i].val], instance)

\* ------------------------------------------------------------------- label
\* str(self.name): the name as it is.
str_name(self) == name[self]

RECURSIVE label_rec(_, _)
label_rec(self, fuel) ==
    IF fuel = 0 THEN Raise("RuntimeError", <<>>)
    ELSE IF parent[self] # None
    THEN LET up  == label_rec(parent[self], fuel - 1)
             idx == child_id(parent[self], self)
         IN  IF ~up.ok THEN up
             ELSE IF ~idx.ok THEN Raise(idx.err, <<>>)
             ELSE Ok(up.val \o <<".">> \o Str_d(idx.val) \o <<".">> \o str_name(self))
    ELSE Ok(str_name(self))

label(self) == label_rec(self, Fuel)

\* --------------------------------------------------------------------- xml
\* A fragment is a sequence of lines; a line is a token with its indentation.
\* xml_prefix and xml_suffix are the subclass's: one opaque line each.
Tok(t, n, ind) == [t |-> t, n |-> n, ind |-> ind]

xml_prefix(self) == <<Tok("prefix", self, 0)>>

xml_suffix(self) == <<Tok("suffix", self, 0)>>

\* The body of indent(self, string, amount), for amount >= 0.
indent(self_, string, amount) ==
    [i \in 1..Len(string) |-> [string[i] EXCEPT !.ind = @ + amount]]

\* A call of indent with positional arguments: the function takes three.
call_indent(args) ==
    IF Len(args) # 3 THEN Raise("TypeError", <<>>)
    ELSE Ok(indent(args[1], args[2], args[3]))

RECURSIVE Concat(_)
Concat(seqs) == IF seqs = <<>> THEN <<>> ELSE Head(seqs) \o Concat(Tail(seqs))

\* The tail of xml(): what follows the children block, and the return.
xml_tail(self, xml_string) ==
    LET whole == xml_string \o xml_prefix(self)
        depth == tree_depth(self)
    IN  IF ~depth.ok THEN Raise(depth.err, <<>>)
        ELSE call_indent(<<whole, 2 * depth.val>>)

RECURSIVE xml_rec(_, _)
xml_rec(self, fuel) ==
    IF fuel = 0 THEN Raise("RuntimeError", <<>>)
    ELSE LET kids == children[self].list
             sub  == [i \in 1..Len(kids) |-> xml_rec(kids[i], fuel - 1)]
             item(i) == <<Tok("item_open", i - 1, 0)>> \o sub[i].val
                        \o <<Tok("item_close", i - 1, 0)>>
             block == <<Tok("children_open", self, 0)>>
                      \o Concat([i \in 1..Len(kids) |-> item(i)])
                      \o <<Tok("children_close", self, 0)>>
         IN  IF Len(kids) = 0 THEN xml_tail(self, xml_prefix(self))
             ELSE IF \E i \in 1..Len(kids) : ~sub[i].ok
             THEN sub[CHOOSE i \in 1..Len(kids) :
                        ~sub[i].ok /\ \A j \in 1..(i - 1) : sub[j].ok]
             ELSE xml_tail(self, xml_prefix(self) \o block)

xml(self) == xml_rec(self, Fuel)

Next == AppendChild

Spec == Init /\ [][Next]_vars

\* ------------------------------------------------------ AveragingPipeline
\* Two Observations, their Beams and one AveragingPipeline, all of them
\* nodes of the specification tree.
ObsNodes == 1..NumObs

BeamNodes == (NumObs + 1)..(NumObs + NumBeams)

AvgNode == NumObs + NumBeams + 1

PipelineNodes == 1..AvgNode

\* AveragingPipeline.__init__ without input_data, after the constructors of
\* the observations and the beams.
InitPipeline ==
    /\ \E obs_name \in [ObsNodes -> Names] :
          name = [n \in PipelineNodes |->
                    IF n \in ObsNodes THEN obs_name[n]
                    ELSE IF n \in BeamNodes THEN <<"B">> ELSE <<"P">>]
    /\ parent = [n \in PipelineNodes |-> None]
    /\ children = [n \in PipelineNodes |-> NoneList]
    /\ last_call = NoCall
    /\ input_data = NoneList
    /\ predecessor_label \in {NoneStr, Str(<<"L">>)}
    /\ NoObservation
    /\ NoNDPPP
    /\ NoFunctionCall

add_input_data_product(input_sap) ==
    LET old == IF input_data.is_none THEN <<>> ELSE input_data.list
    IN  List(Append(old, input_sap))

\* unique(sequence) is list(set(sequence)): the elements, in some order.
unique(sequence) == Elems(sequence)

predecessor ==
    IF ~predecessor_label.is_none THEN Ok(predecessor_label.str)
    ELSE IF input_data.is_none THEN Raise("TypeError", <<>>)
    ELSE LET with_parent == SelectSeq(input_data.list,
                                      LAMBDA d : parent[d] # None)
             labels == [i \in 1..Len(with_parent) |-> label(parent[with_parent[i]])]
         IN  IF \E i \in 1..Len(labels) : ~labels[i].ok
             THEN labels[CHOOSE i \in 1..Len(labels) :
                           ~labels[i].ok /\ \A j \in 1..(i - 1) : labels[j].ok]
             ELSE LET predecessor_observations ==
                          unique([i \in 1..Len(labels) |-> labels[i].val])
                  IN  IF Cardinality(predecessor_observations) # 1
                      THEN Raise("ValueError", <<>>)
                      ELSE Ok(CHOOSE l \in predecessor_observations : TRUE)

\* AveragingPipeline.xml_prefix: the dictionary of the template is filled
\* first, label() before predecessor(); input_data is looked at after that.
\* The flagging strategy is left at None and read from the first input's
\* parent.
AveragingPipeline_xml_prefix ==
    LET failed(err, message) ==
            [ok |-> FALSE, err |-> err, message |-> message]
        label_ == label(AvgNode)
    IN  IF ~label_.ok THEN failed(label_.err, "")
        ELSE IF ~predecessor.ok
        THEN failed(predecessor.err,
                    IF predecessor.err = "ValueError"
                    THEN "AveragingPipeline: more than one predecessor"
                    ELSE "")
        ELSE IF input_data.is_none
        THEN failed("ValueError", "AveragingPipeline.input_data is None!")
        ELSE IF parent[input_data.list[1]] = None
        THEN failed("AttributeError", "")
        ELSE [ok |-> TRUE, err |-> "", message |-> ""]

ObsAppendChild ==
    \E o \in ObsNodes, c \in BeamNodes \cup {AvgNode} :
        /\ TotalChildren < MaxAppends
        /\ append_child(o, c)
        /\ UNCHANGED <<pipeline_vars, observation_vars, ndppp, call>>

AddInputDataProduct ==
    \E b \in BeamNodes :
        /\ Len(input_data.list) < MaxInputs
        /\ input_data' = add_input_data_product(b)
        /\ last_call' = [op |-> "add_input_data_product", self |-> AvgNode,
                         instance |-> b]
        /\ UNCHANGED <<name, parent, children, predecessor_label,
                       observation_vars, ndppp, call>>

NextPipeline == ObsAppendChild \/ AddInputDataProduct

SpecPipeline == InitPipeline /\ [][NextPipeline]_vars

\* ------------------------------------------------ utilities and momformats
IsNumber(v) == v.t \in {"int", "float"}

Tenths(v) == IF v.t = "int" THEN 10 * v.i ELSE v.i

\* a == b of Python: numbers by their value, strings by their text.
py_eq(a, b) ==
    \/ IsNumber(a) /\ IsNumber(b) /\ Tenths(a) = Tenths(b)
    \/ a.t = "str" /\ b.t = "str" /\ a.s = b.s

\* value in allowed
py_in(value, allowed) == \E k \in 1..Len(allowed) : py_eq(value, allowed[k])

\* int(x) of a non-negative number truncates; of anything else here it raises.
py_int(x) ==
    IF x.t = "int" THEN Ok(PyInt(x.i))
    ELSE IF x.t = "float" THEN Ok(PyInt(x.i \div 10))
    ELSE Raise("TypeError", PyNone)

\* sep.join(items) takes strings only.
str_join(items) ==
    IF \E k \in 1..Len(items) : items[k].t # "str"
    THEN Raise("TypeError", <<>>)
    ELSE Ok([k \in 1..Len(items) |-> items[k].s])

\* validate_enumeration(name, value, allowed): the exception raised, if any.
validate_enumeration(field, value, allowed) ==
    IF ~py_in(value, allowed)
    THEN LET listed == str_join(allowed)
         IN  IF ~listed.ok THEN Exc(listed.err, "", <<>>)
             ELSE Exc("ValueError", field, listed.val)
    ELSE NoExc

\* mom_antenna_name_from_mac_name on the antenna sets of the model: the words
\* between '_', joined by ' ', all but the first capitalized.
MomAntennaName(mac_name) ==
    CASE mac_name = "LBA_INNER"      -> "LBA Inner"
      [] mac_name = "LBA_OUTER"      -> "LBA Outer"
      [] mac_name = "HBA_ZERO"       -> "HBA Zero"
      [] mac_name = "HBA_ONE"        -> "HBA One"
      [] mac_name = "HBA_DUAL"       -> "HBA Dual"
      [] mac_name = "HBA_JOINED"     -> "HBA Joined"
      [] mac_name = "HBA_DUAL_INNER" -> "HBA Dual Inner"
      [] mac_name = "HBA_TWO"        -> "HBA Two"

mom_antenna_name_from_mac_name(mac_name) ==
    IF mac_name.t # "str" THEN Raise("AttributeError", "")
    ELSE Ok(MomAntennaName(mac_name.s))

translation_table ==
    [n \in {"LBA_LOW", "LBA_HIGH", "HBA_LOW", "HBA_MID", "HBA_HIGH"} |->
        CASE n = "LBA_LOW"  -> "10-90 MHz"
          [] n = "LBA_HIGH" -> "30-90 MHz"
          [] n = "HBA_LOW"  -> "110-190 MHz"
          [] n = "HBA_MID"  -> "170-230 MHz"
          [] n = "HBA_HIGH" -> "210-250 MHz"]

mom_frequency_range(range) ==
    IF range.t = "str" /\ range.s \in DOMAIN translation_table
    THEN Ok(translation_table[range.s])
    ELSE Raise("KeyError", "")

\* ------------------------------------------------------------- Observation
valid_antenna_sets ==
    <<PyStr("LBA_INNER"), PyStr("LBA_OUTER"), PyStr("HBA_ZERO"), PyStr("HBA_ONE"),
      PyStr("HBA_DUAL"), PyStr("HBA_JOINED"), PyStr("HBA_DUAL_INNER")>>

valid_frequency_ranges ==
    <<PyStr("LBA_LOW"), PyStr("LBA_HIGH"), PyStr("HBA_LOW"), PyStr("HBA_MID"),
      PyStr("HBA_HIGH")>>

valid_clocks == <<PyInt(160), PyInt(200)>>

valid_bit_modes == <<PyInt(4), PyInt(8), PyInt(16)>>

\* Observation.validate: the first exception raised, if any.
Observation_validate(self) ==
    LET e1 == validate_enumeration("Observation antenna set",
                                   self.antenna_set, valid_antenna_sets)
        e2 == validate_enumeration("Observation frequency range",
                                   self.frequency_range, valid_frequency_ranges)
        e3 == validate_enumeration("Observation clock frequency",
                                   self.clock_mhz, valid_clocks)
        e4 == validate_enumeration("Observation observation bit mode",
                                   self.bit_mode, valid_bit_modes)
    IN  IF e1 # NoExc THEN e1
        ELSE IF e2 # NoExc THEN e2
        ELSE IF e3 # NoExc THEN e3
        ELSE IF e4 # NoExc THEN e4
        ELSE IF self.start_date.t # "tuple" \/ self.start_date.i # 6
        THEN Exc("ValueError", "Observation start_date", <<>>)
        ELSE NoExc

\* self.clock_mhz = int(clock_mhz)
Observation_clock_mhz(clock_mhz) == py_int(clock_mhz)

\* Observation.__init__: the fields are stored, the clock through int(), and
\* validate() is called; an exception leaves no object.
Observation_init(args) ==
    LET clock == Observation_clock_mhz(args.clock_mhz)
        self  == [args EXCEPT !.clock_mhz = clock.val]
        exc   == Observation_validate(self)
    IN  IF ~clock.ok
        THEN [state |-> "raised", args |-> args, self |-> NoFields,
              exc |-> Exc(clock.err, "", <<>>)]
        ELSE IF exc # NoExc
        THEN [state |-> "raised", args |-> args, self |-> NoFields, exc |-> exc]
        ELSE [state |-> "constructed", args |-> args, self |-> self, exc |-> NoExc]

AntennaSetArgs == {PyStr("HBA_DUAL_INNER"), PyStr("LBA_OUTER"), PyStr("HBA_TWO")}

FrequencyRangeArgs ==
    {PyStr("LBA_LOW"), PyStr("LBA_HIGH"), PyStr("HBA_LOW"), PyStr("HBA_MID"),
     PyStr("HBA_HIGH"), PyStr("HBA")}

\* 160, 200, 100, 200.5 and None
ClockArgs == {PyInt(160), PyInt(200), PyInt(100), PyFloat10(2005), PyNone}

BitModeArgs == {PyInt(4), PyInt(8), PyInt(16), PyInt(2), PyStr("16")}

StartDateArgs == {PyTuple(6), PyTuple(5), PyList(6)}

\* -------------------------------------------------------------------- Beam
\* Beam.__init__: a str subband_spec is kept, a list of int is comma-joined.
RECURSIVE comma_join(_)
comma_join(strs) ==
    IF Len(strs) = 0 THEN <<>>
    ELSE IF Len(strs) = 1 THEN strs[1]
    ELSE strs[1] \o <<",">> \o comma_join(Tail(strs))

\* A subband_spec that is neither a str nor a list: a tuple, an int or None.
TupleSpec(ints) == [t |-> "tuple", chars |-> <<>>, ints |-> ints]

IntSpec(i) == [t |-> "int", chars |-> <<>>, ints |-> <<i>>]

NoneSpec == [t |-> "NoneType", chars |-> <<>>, ints |-> <<>>]

\* 'subband_spec(%r) ...' % value: a tuple on the right of % is the argument
\* list of the format, which has one conversion.
percent_r(value) ==
    IF value.t = "tuple" /\ Len(value.ints) # 1
    THEN Raise("TypeError", <<>>)
    ELSE Ok(<<>>)

Beam_subband_spec(subband_spec) ==
    IF subband_spec.t = "str" THEN Ok(subband_spec.chars)
    ELSE IF subband_spec.t = "list"
    THEN Ok(comma_join([k \in 1..Len(subband_spec.ints) |->
                           Str_d(subband_spec.ints[k])]))
    ELSE IF percent_r(subband_spec).ok THEN Raise("ValueError", <<>>)
    ELSE percent_r(subband_spec)

\* The Beam of observation.py formats its message with '%s' % (str(...),).
observation_Beam_subband_spec(subband_spec) ==
    IF subband_spec.t = "str" THEN Ok(subband_spec.chars)
    ELSE IF subband_spec.t = "list"
    THEN Ok(comma_join([k \in 1..Len(subband_spec.ints) |->
                           Str_d(subband_spec.ints[k])]))
    ELSE Raise("ValueError", <<>>)

StrSpec(chars) == [t |-> "str", chars |-> chars, ints |-> <<>>]

ListSpec(ints) == [t |-> "list", chars |-> <<>>, ints |-> ints]

\* '100..103', [77, 79, 81] and '4'
SubbandSpecArgs ==
    { StrSpec(<<"1", "0", "0", ".", ".", "1", "0", "3">>),
      ListSpec(<<77, 79, 81>>),
      StrSpec(<<"4">>) }

\* An Angle holds radians; here in units of pi/180000000, a millionth of a
\* degree.
Angle_deg(deg) == [rad |-> deg]

Angle_as_deg(self) == self.rad

TargetSource_init(name_, ra_angle, dec_angle) ==
    [name |-> name_, ra_angle |-> ra_angle, dec_angle |-> dec_angle]

ra_deg(self) == Angle_as_deg(self.ra_angle)

dec_deg(self) == Angle_as_deg(self.dec_angle)

\* 'Cyg A' at 299.868152, 40.733916 and '3C 196' at 123.4, 48.2175
CygA == TargetSource_init("Cyg A", Angle_deg(299868152), Angle_deg(40733916))

ThreeC196 ==
    TargetSource_init("3C 196", Angle_deg(123400000), Angle_deg(48217500))

Beam_init(target_source, subband_spec) ==
    [target_source |-> target_source,
     subband_spec |-> Beam_subband_spec(subband_spec).val,
     measurement_type |-> "Target"]

\* The beams of the model: Cyg A on '100..103' and on '4', 3C 196 on
\* [77, 79, 81].
BeamArgs ==
    {Beam_init(IF a.t = "list" THEN ThreeC196 ELSE CygA, a) :
        a \in SubbandSpecArgs}

\* BackendProcessing(...): the flags that decide need_beam_observation(), the
\* Stokes settings and the tied-array beams left at None.
BackendProcessing(beamformed_data) ==
    [t |-> "BackendProcessing", correlated_data |-> TRUE,
     filtered_data |-> FALSE, beamformed_data |-> beamformed_data]

need_beam_observation(self) == self.filtered_data \/ self.beamformed_data

measurement_type(self) ==
    IF need_beam_observation(self) THEN "lofar:BFMeasurementType"
    ELSE "lofar:UVMeasurementType"

measurement_attributes(self) ==
    IF need_beam_observation(self) THEN "bfMeasurementAttributes"
    ELSE "uvMeasurementAttributes"

BackendArgs == {BackendProcessing(FALSE), BackendProcessing(TRUE)}

BeamListArgs ==
    UNION {[1..n -> BeamArgs] : n \in 1..MaxBeams}

\* parse_subband_list: the sub-bands of 'A..B' ranges and integers between
\* commas.
DigitValue(ch) == CHOOSE d \in 0..9 : Digit(d) = ch

RECURSIVE ParseInt(_)
ParseInt(chars) ==
    IF Len(chars) = 0 THEN 0
    ELSE 10 * ParseInt(SubSeq(chars, 1, Len(chars) - 1))
         + DigitValue(chars[Len(chars)])

FirstAt(chars, ch) ==
    IF \E k \in 1..Len(chars) : chars[k] = ch
    THEN CHOOSE k \in 1..Len(chars) :
            chars[k] = ch /\ \A j \in 1..(k - 1) : chars[j] # ch
    ELSE 0

RECURSIVE SplitComma(_)
SplitComma(chars) ==
    LET k == FirstAt(chars, ",")
    IN  IF k = 0 THEN <<chars>>
        ELSE <<SubSeq(chars, 1, k - 1)>>
             \o SplitComma(SubSeq(chars, k + 1, Len(chars)))

parse_subband_item(chars) ==
    LET k == FirstAt(chars, ".")
    IN  IF k = 0 THEN <<ParseInt(chars)>>
        ELSE LET lo == ParseInt(SubSeq(chars, 1, k - 1))
                 hi == ParseInt(SubSeq(chars, k + 2, Len(chars)))
             IN  [j \in 1..(hi - lo + 1) |-> lo + j - 1]

parse_subband_list(chars) ==
    LET items == SplitComma(chars)
    IN  Concat([k \in 1..Len(items) |-> parse_subband_item(items[k])])

RECURSIVE Sum(_)
Sum(ints) == IF Len(ints) = 0 THEN 0 ELSE Head(ints) + Sum(Tail(ints))

\* '%.4f' % (num/den), in units of 0.00001: the nearest multiple of 0.0001,
\* a tie going to the even one.
Fmt4f(num, den) ==
    LET n == 10000 * (num % den)
        q == 10000 * (num \div den) + n \div den
        r == n % den
    IN  10 * (IF 2 * r < den THEN q
              ELSE IF 2 * r > den THEN q + 1
              ELSE IF q % 2 = 0 THEN q ELSE q + 1)

\* Beam.xml_prefix, lines 144-151 and 186-187: the bandwidth and the central
\* frequency as they are formatted.
Beam_bandwidth_mhz(sub_bands, clock_mhz) ==
    Fmt4f(Len(sub_bands) * clock_mhz, 1024)

Beam_central_frequency_mhz(sub_bands, clock_mhz, frequency_range) ==
    LET twice_offset ==
            IF frequency_range = "HBA_LOW" THEN clock_mhz
            ELSE IF frequency_range \in {"HBA_MID", "HBA_HIGH"} THEN 2 * clock_mhz
            ELSE 0
    IN  Fmt4f(2 * Sum(sub_bands) * clock_mhz
                 + twice_offset * Len(sub_bands) * 1024,
              2 * Len(sub_bands) * 1024)

\* Beam.xml_prefix of the beam at tree node self, hosted by its parent, which
\* carries clock_mhz and frequency_range: self.parent.backend fails without a
\* parent, and the topology is self.label().
Beam_xml_prefix(self, beam, host) ==
    IF parent[self] = None
    THEN [NoEmitted EXCEPT !.by = "Beam.xml_prefix", !.ok = FALSE,
                           !.err = "AttributeError"]
    ELSE LET sub_bands == parse_subband_list(beam.subband_spec)
             bw == Beam_bandwidth_mhz(sub_bands, host.clock_mhz.i)
             cf == Beam_central_frequency_mhz(sub_bands, host.clock_mhz.i,
                                              host.frequency_range.s)
             topology == label(self)
         IN  IF ~topology.ok
             THEN [NoEmitted EXCEPT !.by = "Beam.xml_prefix", !.ok = FALSE,
                                    !.err = topology.err]
             ELSE [NoEmitted EXCEPT !.by = "Beam.xml_prefix",
                      !.beams = <<[beam |-> beam, bandWidth |-> bw,
                                   centralFrequency |-> cf]>>]

\* --------------------------------------------------------- Observation.xml
\* The literals of observation.py:454-455, in units of 0.00001 MHz.
LiteralBandWidth == 4843750

LiteralCentralFrequency == 13921875

\* An XML text is the sequence of its tags and texts: an opening tag (with
\* its index attribute, or ""), a closing tag, or an element that holds text
\* or nothing.
Txt(s) == [s |-> s, i |-> 0, c |-> <<>>]

Num(i) == [s |-> "", i |-> i, c |-> <<>>]

Chr(c) == [s |-> "", i |-> 0, c |-> c]

Open(n, v) == [t |-> "open", n |-> n, v |-> v]

Close(n) == [t |-> "close", n |-> n, v |-> Txt("")]

Leaf(n, v) == [t |-> "leaf", n |-> n, v |-> v]

status_history_item_left_open ==
    <<Open("statusHistory", Txt("")), Open("item", Num(0)),
      Leaf("mom2ObjectStatus", Txt("opened")),
      Close("statusHistory"), Leaf("currentStatus", Txt("opened"))>>

\* The statusHistory block that the observation and each measurement carry.
status_history ==
    <<Open("statusHistory", Txt("")), Open("item", Num(0)),
      Leaf("mom2ObjectStatus", Txt("opened")), Close("item"),
      Close("statusHistory"), Leaf("currentStatus", Txt("opened"))>>

tied_array_beam_list(self) ==
    IF need_beam_observation(self)
    THEN <<Open("tiedArrayBeamList", Txt("")), Open("tiedArrayBeam", Txt("")),
           Leaf("coherent", Txt("false")), Close("tiedArrayBeam"),
           Close("tiedArrayBeamList")>>
    ELSE <<Leaf("tiedArrayBeamList", Txt(""))>>

\* Observation.xml, lines 425-463: the item of the beam at index id.
Observation_xml_item(self, id, obs_name) ==
    LET beam == self.beam_list[id + 1]
    IN  <<Open("item", Num(id)),
          Open("lofar:measurement", Txt(measurement_type(self.backend))),
          Leaf("name", Txt(beam.target_source.name)),
          Leaf("description", Chr(obs_name))>>
        \o status_history
        \o <<Open("lofar:" \o measurement_attributes(self.backend), Txt("")),
              Leaf("measurementType", Txt(beam.measurement_type)),
              Open("specification", Txt("")),
              Leaf("targetName", Txt(beam.target_source.name)),
              Leaf("ra", Num(ra_deg(beam.target_source))),
              Leaf("dec", Num(dec_deg(beam.target_source))),
              Leaf("equinox", Txt("J2000")),
              Open("subbandsSpecification", Txt("")),
              Leaf("bandWidth", Num(LiteralBandWidth)),
              Leaf("centralFrequency", Num(LiteralCentralFrequency)),
              Leaf("contiguous", Txt("false")),
              Leaf("subbands", Chr(beam.subband_spec)),
              Close("subbandsSpecification")>>
        \o tied_array_beam_list(self.backend)
        \o <<Close("specification"),
              Close("lofar:" \o measurement_attributes(self.backend)),
              Close("lofar:measurement"),
              Close("item")>>

\* Observation.xml, lines 370-467: the text it returns.
Observation_xml_string(self, antenna, filter) ==
    LET obs_name == <<self.beam_list[1].target_source.name, self.antenna_set.s>>
    IN  <<Open("lofar:observation", Txt("")), Leaf("name", Chr(obs_name)),
          Leaf("description", Chr(obs_name))>>
        \o status_history
        \o <<Open("lofar:observationAttributes", Txt("")),
              Leaf("antenna", Txt(antenna)),
              Leaf("clock", Num(self.clock_mhz.i)),
              Leaf("instrumentFilter", Txt(filter)),
              Leaf("numberOfBitsPerSample", Num(self.bit_mode.i)),
              Close("lofar:observationAttributes"),
              Open("children", Txt(""))>>
        \o Concat([k \in 1..Len(self.beam_list) |->
                      Observation_xml_item(self, k - 1, obs_name)])
        \o <<Close("children"), Close("lofar:observation")>>

Observation_xml(self) ==
    LET antenna == mom_antenna_name_from_mac_name(self.antenna_set)
        filter  == mom_frequency_range(self.frequency_range)
    IN  IF ~antenna.ok
        THEN [NoEmitted EXCEPT !.by = "Observation.xml", !.ok = FALSE,
                               !.err = antenna.err]
        ELSE IF ~filter.ok
        THEN [NoEmitted EXCEPT !.by = "Observation.xml", !.ok = FALSE,
                               !.err = filter.err]
        ELSE [by |-> "Observation.xml", ok |-> TRUE, err |-> "",
              document |-> Observation_xml_string(self, antenna.val, filter.val),
              antenna |-> antenna.val, instrumentFilter |-> filter.val,
              beams |-> [k \in 1..Len(self.beam_list) |->
                            [beam |-> self.beam_list[k],
                             bandWidth |-> LiteralBandWidth,
                             centralFrequency |-> LiteralCentralFrequency]]]

\* In this specification the tree is an observation (node 1) and a beam
\* (node 2), as in the example of beam.py.
HostNode == 1

BeamNode == 2

InitObservation ==
    /\ name = [n \in {HostNode, BeamNode} |->
                 IF n = HostNode THEN <<"O">> ELSE <<"C", " ", "A">>]
    /\ parent = [n \in {HostNode, BeamNode} |-> None]
    /\ children = [n \in {HostNode, BeamNode} |-> NoneList]
    /\ last_call = NoCall
    /\ NoPipeline
    /\ NoObservation
    /\ NoNDPPP
    /\ NoFunctionCall

ObservationInit ==
    /\ obs.state = "none"
    /\ \E a \in AntennaSetArgs, f \in FrequencyRangeArgs, d \in StartDateArgs,
          c \in ClockArgs, b \in BitModeArgs, l \in BeamListArgs,
          backend \in BackendArgs :
        /\ obs' = Observation_init([antenna_set |-> a, frequency_range |-> f,
                                    start_date |-> d, clock_mhz |-> c,
                                    bit_mode |-> b, beam_list |-> l,
                                    backend |-> backend])
        /\ emitted' = NoEmitted
        /\ UNCHANGED <<tree_vars, pipeline_vars, ndppp, call>>

ObservationXml ==
    /\ obs.state = "constructed"
    /\ emitted' = Observation_xml(obs.self)
    /\ UNCHANGED <<obs, tree_vars, pipeline_vars, ndppp, call>>

HostAppendBeam ==
    /\ parent[BeamNode] = None
    /\ append_child(HostNode, BeamNode)
    /\ UNCHANGED <<pipeline_vars, observation_vars, ndppp, call>>

BeamXmlPrefix ==
    \E k \in 1..Len(obs.self.beam_list) :
        /\ obs.state = "constructed"
        /\ emitted' = Beam_xml_prefix(BeamNode, obs.self.beam_list[k], obs.self)
        /\ UNCHANGED <<obs, tree_vars, pipeline_vars, ndppp, call>>

NextObservation ==
    ObservationInit \/ ObservationXml \/ HostAppendBeam \/ BeamXmlPrefix

SpecObservation == InitObservation /\ [][NextObservation]_vars

\* ------------------------------------------------------------------- NDPPP
\* typecheck(variable, int, name): a TypeError unless the value is an int.
typecheck(variable, name_) ==
    IF variable.t # "int" THEN Exc("TypeError", name_, <<"int">>) ELSE NoExc

\* a % b of Python on non-negative integers
py_mod(a, b) == IF b = 0 THEN Raise("ZeroDivisionError", 0) ELSE Ok(a % b)

\* NDPPP.validate: the first exception raised, if any.
NDPPP_validate(self) ==
    LET t1 == typecheck(self.avg_freq_step, "NDPPP.avg_freq_step")
        t2 == typecheck(self.avg_time_step, "NDPPP.avg_time_step")
        t3 == typecheck(self.demix_freq_step, "NDPPP.demix_freq_step")
        t4 == typecheck(self.demix_time_step, "NDPPP.demix_time_step")
        freq == py_mod(self.demix_freq_step.i, self.avg_freq_step.i)
        time == py_mod(self.demix_time_step.i, self.avg_time_step.i)
    IN  IF t1 # NoExc THEN t1
        ELSE IF t2 # NoExc THEN t2
        ELSE IF t3 # NoExc THEN t3
        ELSE IF t4 # NoExc THEN t4
        ELSE IF ~freq.ok THEN Exc(freq.err, "", <<>>)
        ELSE IF freq.val # 0 THEN Exc("ValueError", "NDPPP.demix_freq_step", <<>>)
        ELSE IF ~time.ok THEN Exc(time.err, "", <<>>)
        ELSE IF time.val # 0 THEN Exc("ValueError", "NDPPP.demix_time_step", <<>>)
        ELSE NoExc

\* NDPPP.__init__: the steps are stored and validate() is called; an
\* exception leaves no object.
NDPPP_init(args) ==
    LET exc == NDPPP_validate(args)
    IN  IF exc # NoExc
        THEN [state |-> "raised", args |-> args, self |-> NoSteps, exc |-> exc]
        ELSE [state |-> "constructed", args |-> args, self |-> args,
              exc |-> NoExc]

\* the integers 0..MaxStep, and 2.5
StepArgs == {PyInt(k) : k \in 0..MaxStep} \cup {PyFloat10(25)}

InitNDPPP ==
    /\ OSB_init(1..NumNodes)
    /\ last_call = NoCall
    /\ NoPipeline
    /\ NoObservation
    /\ NoNDPPP
    /\ NoFunctionCall

NDPPPInit ==
    /\ ndppp.state = "none"
    /\ \E af \in StepArgs, at \in StepArgs, df \in StepArgs, dt \in StepArgs :
          ndppp' = NDPPP_init([avg_freq_step |-> af, avg_time_step |-> at,
                               demix_freq_step |-> df, demix_time_step |-> dt])
    /\ UNCHANGED <<tree_vars, pipeline_vars, observation_vars, call>>

NextNDPPP == NDPPPInit

SpecNDPPP == InitNDPPP /\ [][NextNDPPP]_vars

\* --------------------------------------------------------- SourceCatalogue
\* Angle(...): the keywords are shms, sdms, rad and deg, exactly one given.
Angle_init(keywords) ==
    IF ~(keywords \subseteq {"shms", "sdms", "rad", "deg"})
    THEN Raise("TypeError", None)
    ELSE IF Cardinality(keywords) # 1 THEN Raise("ValueError", None)
    ELSE Ok(CHOOSE k \in keywords : TRUE)

\* A row of a table is [names, ra, dec, elevation]: elevation is what
\* src.compute(observer) finds for the row, in units of 0.00001 degree.
target_source_from_row(row) ==
    LET ra_angle  == Angle_init({"shms"})
        dec_angle == Angle_init({"sdms"})
    IN  IF ~ra_angle.ok THEN Raise(ra_angle.err, None)
        ELSE IF ~dec_angle.ok THEN Raise(dec_angle.err, None)
        ELSE Ok([name |-> row.names[1], ra_angle |-> row.ra,
                 dec_angle |-> row.dec])

\* sorted(zip(sources, elevations), key = elevation)[::-1], as the positions
\* of the rows: a stable ascending sort, reversed.
sorted_by_elevation(sources) ==
    LET n == Len(sources)
    IN  CHOOSE p \in [1..n -> 1..n] :
            /\ \A i, j \in 1..n : i # j => p[i] # p[j]
            /\ \A i, j \in 1..n : i < j =>
                  \/ sources[p[i]].elevation < sources[p[j]].elevation
                  \/ /\ sources[p[i]].elevation = sources[p[j]].elevation
                     /\ p[i] < p[j]

reversed(list) == [i \in 1..Len(list) |-> list[Len(list) + 1 - i]]

DefaultMinEl == 0

DefaultMaxEl == 9000001

\* A number of degrees, in units of 0.00001 degree.
PyDeg(x) == [t |-> "float", s |-> "", i |-> x]

\* if min_elevation_deg: ... -- None and 0 are both false
truth(value) == value.t # "NoneType" /\ value.i # 0

\* The first position of order whose row lies between the bounds, or 0.
first_between(sources, order, min_el, max_el) ==
    IF \E i \in 1..Len(order) :
          sources[order[i]].elevation > min_el
          /\ sources[order[i]].elevation < max_el
    THEN CHOOSE i \in 1..Len(order) :
            /\ sources[order[i]].elevation > min_el
            /\ sources[order[i]].elevation < max_el
            /\ \A j \in 1..(i - 1) :
                  ~(sources[order[j]].elevation > min_el
                    /\ sources[order[j]].elevation < max_el)
    ELSE 0

\* The loop of lines 71-77: per row, Angle(hms = ...), Angle(sdms = ...) and
\* the elevation; the first exception ends the call.
row_angles(row) ==
    LET ra  == Angle_init({"hms"})
        dec == Angle_init({"sdms"})
    IN  IF ~ra.ok THEN ra ELSE dec

closest_to_meridian(sources, min_elevation_deg, max_elevation_deg) ==
    IF \E k \in 1..Len(sources) : ~row_angles(sources[k]).ok
    THEN LET k == CHOOSE k \in 1..Len(sources) : ~row_angles(sources[k]).ok
         IN  [ok |-> FALSE, val |-> None, err |-> row_angles(sources[k]).err,
              listed |-> <<>>]
    ELSE LET source_elevation_pairs == reversed(sorted_by_elevation(sources))
             min_el == IF truth(min_elevation_deg) THEN min_elevation_deg.i
                       ELSE DefaultMinEl
             max_el == IF truth(max_elevation_deg) THEN max_elevation_deg.i
                       ELSE DefaultMaxEl
             found == first_between(sources, source_elevation_pairs,
                                    min_el, max_el)
         IN  IF found # 0
             THEN LET target == target_source_from_row(
                                    sources[source_elevation_pairs[found]])
                  IN  [ok |-> target.ok, val |-> target.val,
                       err |-> target.err, listed |-> <<>>]
             ELSE [ok |-> FALSE, val |-> None, err |-> "NoSuitableSourceError",
                   listed |-> [i \in 1..Len(source_elevation_pairs) |->
                       <<sources[source_elevation_pairs[i]].names[1],
                         sources[source_elevation_pairs[i]].elevation>>]]

\* The rows of the model: row k of a table is named by k, with coordinates
\* of its own.
ElevationArgs == {-1000000, 0, 3000000, 4500000}

Row(k, elevation) ==
    [names |-> <<"3C " \o ToString(k), ToString(k)>>, ra |-> <<"ra", k>>,
     dec |-> <<"dec", k>>, elevation |-> elevation]

SourcesArgs ==
    UNION {{[k \in 1..n |-> Row(k, els[k])] : els \in [1..n -> ElevationArgs]} :
              n \in 0..MaxRows}

\* None, 0, 30 and 90 degrees
BoundArgs == {PyNone, PyDeg(0), PyDeg(3000000), PyDeg(9000000)}

InitCatalogue ==
    /\ OSB_init(1..NumNodes)
    /\ last_call = NoCall
    /\ NoPipeline
    /\ NoObservation
    /\ NoNDPPP
    /\ NoFunctionCall

ClosestToMeridian ==
    /\ call.op = "none"
    /\ \E sources \in SourcesArgs, lo \in BoundArgs, hi \in BoundArgs :
          call' = [op |-> "closest_to_meridian", sources |-> sources,
                   min_elevation_deg |-> lo, max_elevation_deg |-> hi,
                   result |-> closest_to_meridian(sources, lo, hi)]
    /\ UNCHANGED <<tree_vars, pipeline_vars, observation_vars, ndppp>>

\* self.source_table: a dict from 'HBA' and 'LBA' to the rows, here by their
\* names.
source_table_keys == << <<"H", "B", "A">>, <<"L", "B", "A">> >>

source_table ==
    [band \in {"HBA", "LBA"} |->
        IF band = "HBA"
        THEN << <<"3C 48", "48">>, <<"3C 147", "147">>, <<"3C 196", "196">>,
                <<"3C 295", "295">>, <<"3C 380", "380">> >>
        ELSE << <<"3C 196", "196">>, <<"Cyg A", "cyg">> >>]

\* source_name in row[0], where row is what iterating over the dict gives: a
\* key, so row[0] is its first character and in is the substring test.
in_first_character(source_name, key) ==
    source_name = "" \/ source_name = key[1]

\* target_source_from_row(key): ('+',) + row[1] adds a str to a tuple.
target_source_from_key(key) == Raise("TypeError", None)

\* find_source(source_name), simbad answering with answer.
find_source(source_name, answer) ==
    LET selection == SelectSeq(source_table_keys,
                               LAMBDA key : in_first_character(source_name, key))
    IN  IF Len(selection) # 1
        THEN [ok |-> answer.ok, val |-> answer.val, err |-> answer.err,
              simbad |-> TRUE]
        ELSE LET target == target_source_from_key(selection[1])
             IN  [ok |-> target.ok, val |-> target.val, err |-> target.err,
                  simbad |-> FALSE]

\* What simbad(source_name) may answer: a source, or no coordinates.
simbad(source_name) ==
    {Ok([name |-> source_name, ra_angle |-> <<"ra", "simbad">>,
         dec_angle |-> <<"dec", "simbad">>]),
     Raise("NoSimbadCoordinatesError", None)}

SourceNameArgs == {"3C 196", "196", "Cyg A", "cyg", "48", "H", "", "3C 999"}

FindSource ==
    /\ call.op = "none"
    /\ \E source_name \in SourceNameArgs :
          \E answer \in simbad(source_name) :
              call' = [op |-> "find_source", source_name |-> source_name,
                       result |-> find_source(source_name, answer)]
    /\ UNCHANGED <<tree_vars, pipeline_vars, observation_vars, ndppp>>

NextCatalogue == ClosestToMeridian \/ FindSource

SpecCatalogue == InitCatalogue /\ [][NextCatalogue]_vars

\* ------------------------------------------- as_xml_mom_project and Folder
\* sep.join(strings), on texts
RECURSIVE join(_, _)
join(sep, strings) ==
    IF Len(strings) = 0 THEN <<>>
    ELSE IF Len(strings) = 1 THEN strings[1]
    ELSE strings[1] \o sep \o join(sep, Tail(strings))

\* An element of a project or of a folder is an Observation, known here by a
\* number, or a Folder. xml(project_name) of the Observation is its
\* lofar:observation element.
ObservationElement(k) == [t |-> "Observation", k |-> k, children |-> NoneList]

Folder_init(children_) == [t |-> "Folder", k |-> 0, children |-> children_]

RECURSIVE element_xml(_)
\* Folder.xml
Folder_xml(self) ==
    LET preamble == <<Open("lofar:folder", Txt("")), Leaf("name", Txt("folder")),
                      Open("children", Txt(""))>>
        some == ~self.children.is_none /\ Len(self.children.list) > 0
        children_string ==
            join(<<Close("item"), Open("item", Txt(""))>>,
                 [i \in 1..Len(self.children.list) |->
                     element_xml(self.children.list[i])])
    IN  preamble
        \o (IF some THEN <<Open("item", Txt(""))>> \o children_string
                         \o <<Close("item")>>
            ELSE <<>>)
        \o <<Close("children"), Close("lofar:folder")>>

element_xml(self) ==
    IF self.t = "Folder" THEN Folder_xml(self)
    ELSE <<Open("lofar:observation", Num(self.k)), Leaf("name", Num(self.k)),
           Close("lofar:observation")>>

as_xml_mom_project(observations) ==
    <<Open("mom2:project", Txt("")), Leaf("name", Txt("project")),
      Leaf("description", Txt("project")), Open("children", Txt("")),
      Open("item", Txt(""))>>
    \o join(<<Close("item"), Open("item", Txt(""))>>,
            [i \in 1..Len(observations) |-> element_xml(observations[i])])
    \o <<Close("item"), Close("children"), Close("mom2:project")>>

\* Observations, and folders of at most two observations.
ElementArgs ==
    {ObservationElement(1), ObservationElement(2), Folder_init(NoneList),
     Folder_init(List(<<>>)), Folder_init(List(<<ObservationElement(1)>>)),
     Folder_init(List(<<ObservationElement(2), ObservationElement(1)>>))}

ElementListArgs == UNION {[1..n -> ElementArgs] : n \in 0..MaxItems}

InitDocument ==
    /\ OSB_init(1..NumNodes)
    /\ last_call = NoCall
    /\ NoPipeline
    /\ NoObservation
    /\ NoNDPPP
    /\ NoFunctionCall

AsXmlMomProject ==
    /\ call.op = "none"
    /\ \E observations \in ElementListArgs :
          call' = [op |-> "as_xml_mom_project", elements |-> observations,
                   result |-> as_xml_mom_project(observations)]
    /\ UNCHANGED <<tree_vars, pipeline_vars, observation_vars, ndppp>>

FolderXml ==
    /\ call.op = "none"
    /\ \E children_ \in {NoneList} \cup {List(l) : l \in ElementListArgs} :
          call' = [op |-> "Folder.xml",
                   elements |-> children_.list,
                   result |-> Folder_xml(Folder_init(children_))]
    /\ UNCHANGED <<tree_vars, pipeline_vars, observation_vars, ndppp>>

NextDocument == AsXmlMomProject \/ FolderXml

SpecDocument == InitDocument /\ [][NextDocument]_vars

\* ------------------------------------------------------------ station_list
\* A station name is a string of characters: two letters and three digits.
St(a, b, n) == <<a, b, Digit(n \div 100), Digit((n \div 10) % 10), Digit(n % 10)>>

\* ord(ch) of the characters of station names
ord(ch) ==
    IF \E d \in 0..9 : Digit(d) = ch THEN 48 + DigitValue(ch)
    ELSE CASE ch = "C" -> 67 [] ch = "D" -> 68 [] ch = "E" -> 69
           [] ch = "F" -> 70 [] ch = "K" -> 75 [] ch = "R" -> 82
           [] ch = "S" -> 83 [] ch = "U" -> 85 [] ch = "X" -> 88
           [] ch = "c" -> 99 [] ch = "d" -> 100 [] ch = "e" -> 101
           [] ch = "r" -> 114 [] ch = "s" -> 115

\* ch.upper()
upper_char(ch) ==
    CASE ch = "c" -> "C" [] ch = "d" -> "D" [] ch = "e" -> "E"
      [] ch = "r" -> "R" [] ch = "s" -> "S" [] OTHER -> ch

upper_unchanged(string) == string

\* station.upper()
upper(string) == [i \in 1..Len(string) |-> upper_char(string[i])]

\* a < b of strings
RECURSIVE str_lt(_, _)
str_lt(a, b) ==
    IF Len(b) = 0 THEN FALSE
    ELSE IF Len(a) = 0 THEN TRUE
    ELSE IF ord(Head(a)) # ord(Head(b)) THEN ord(Head(a)) < ord(Head(b))
    ELSE str_lt(Tail(a), Tail(b))

\* the place of a string in an ascending list
RECURSIVE insort(_, _)
insort(list, string) ==
    IF list = <<>> THEN <<string>>
    ELSE IF str_lt(string, Head(list)) THEN <<string>> \o list
    ELSE <<Head(list)>> \o insort(Tail(list), string)

\* sorted(strings), of strings that differ
RECURSIVE sorted(_)
sorted(strings) ==
    IF strings = {} THEN <<>>
    ELSE LET any == CHOOSE x \in strings : TRUE
         IN  insort(sorted(strings \ {any}), any)

superterp == [i \in 1..6 |-> St("C", "S", i + 1)]

core_numbers ==
    <<11, 13, 17, 21, 24, 26, 28, 30, 31, 32, 101, 103, 201, 301, 302, 401, 501>>

core ==
    <<St("C", "S", 1)>> \o superterp
    \o [i \in 1..Len(core_numbers) |-> St("C", "S", core_numbers[i])]

remote_numbers ==
    <<106, 205, 208, 210, 305, 306, 307, 310, 406, 407, 409, 503, 508, 509>>

remote == [i \in 1..Len(remote_numbers) |-> St("R", "S", remote_numbers[i])]

netherlands_is_remote == remote

netherlands == core \o remote

europe ==
    <<St("D", "E", 601), St("D", "E", 602), St("D", "E", 603),
      St("D", "E", 604), St("D", "E", 605), St("F", "R", 606),
      St("S", "E", 607), St("U", "K", 608)>>

all_stations == netherlands \o europe

lookup_table ==
    [station_set \in {"superterp", "core", "remote", "nl", "eu", "all", "none"} |->
        CASE station_set = "superterp" -> superterp
          [] station_set = "core" -> core
          [] station_set = "remote" -> remote
          [] station_set = "nl" -> netherlands
          [] station_set = "eu" -> europe
          [] station_set = "all" -> all_stations
          [] station_set = "none" -> <<>>]

\* station_list(station_set, include, exclude): include and exclude are None
\* or a list. The exception carries the key that was not found.
station_list(station_set, include, exclude) ==
    LET include_list ==
            IF include.is_none THEN <<>>
            ELSE [i \in 1..Len(include.list) |-> upper(include.list[i])]
        exclude_list ==
            IF exclude.is_none THEN <<>>
            ELSE [i \in 1..Len(exclude.list) |-> upper(exclude.list[i])]
    IN  IF station_set \notin DOMAIN lookup_table
        THEN [ok |-> FALSE, val |-> <<>>, err |-> "InvalidStationSetError",
              names |-> station_set]
        ELSE LET superset == unique(lookup_table[station_set] \o include_list)
             IN  [ok |-> TRUE,
                  val |-> sorted({st \in superset : st \notin Elems(exclude_list)}),
                  err |-> "", names |-> ""]

StationSetArgs ==
    {"superterp", "core", "remote", "nl", "europe", "eu", "all", "none", "wsrt"}

\* None, [], ['de601', 'CS001'], ['XX999', 'rs106', 'RS106'] and the stations
\* of 'remote' and of 'eu'
StationListArgs ==
    {NoneList, List(<<>>),
     List(<<<<"d", "e", "6", "0", "1">>, St("C", "S", 1)>>),
     List(<<St("X", "X", 999), <<"r", "s", "1", "0", "6">>, St("R", "S", 106)>>),
     List(sorted(Elems(remote))), List(sorted(Elems(europe)))}

InitStations ==
    /\ OSB_init(1..NumNodes)
    /\ last_call = NoCall
    /\ NoPipeline
    /\ NoObservation
    /\ NoNDPPP
    /\ NoFunctionCall

StationList ==
    /\ call.op = "none"
    /\ \E station_set \in StationSetArgs, include \in StationListArgs,
          exclude \in StationListArgs :
          call' = [op |-> "station_list", station_set |-> station_set,
                   include |-> include, exclude |-> exclude,
                   result |-> station_list(station_set, include, exclude)]
    /\ UNCHANGED <<tree_vars, pipeline_vars, observation_vars, ndppp>>

\* ------------------------------------------- exclude_conflicting_*_stations
\* exclude_dict of exclude_conflicting_eu_stations: the core station that
\* shares its hardware with each international station
eu_exclude_dict ==
    [station \in Elems(europe) |->
        CASE station = St("D", "E", 601) -> St("C", "S", 1)
          [] station = St("D", "E", 602) -> St("C", "S", 31)
          [] station = St("D", "E", 603) -> St("C", "S", 28)
          [] station = St("D", "E", 604) -> St("C", "S", 11)
          [] station = St("D", "E", 605) -> St("C", "S", 401)
          [] station = St("F", "R", 606) -> St("C", "S", 30)
          [] station = St("S", "E", 607) -> St("C", "S", 301)
          [] station = St("U", "K", 608) -> St("C", "S", 13)]

\* exclude_dict of exclude_conflicting_nl_stations
nl_exclude_dict ==
    [station \in {St("C", "S", 1), St("C", "S", 31), St("C", "S", 28),
                  St("C", "S", 11), St("C", "S", 401), St("C", "S", 30),
                  St("C", "S", 301), St("C", "S", 13)} |->
        CASE station = St("C", "S", 1) -> St("D", "E", 601)
          [] station = St("C", "S", 31) -> St("D", "E", 602)
          [] station = St("C", "S", 28) -> St("D", "E", 603)
          [] station = St("C", "S", 11) -> St("D", "E", 604)
          [] station = St("C", "S", 401) -> St("D", "E", 605)
          [] station = St("C", "S", 30) -> St("F", "R", 606)
          [] station = St("C", "S", 301) -> St("S", "E", 607)
          [] station = St("C", "S", 13) -> St("U", "K", 608)]

\* the loop of both functions: a station stays when it is no key of the
\* dictionary (KeyError) or its partner is not in the list
keep_all(exclude_dict, stations) == stations

exclude_conflicting(exclude_dict, stations) ==
    SelectSeq(stations,
              LAMBDA station : \/ station \notin DOMAIN exclude_dict
                               \/ exclude_dict[station] \notin Elems(stations))

exclude_conflicting_eu_stations(stations) ==
    exclude_conflicting(eu_exclude_dict, stations)

exclude_conflicting_nl_stations(stations) ==
    exclude_conflicting(nl_exclude_dict, stations)

MaxStations == 3

StationPool ==
    {St("C", "S", 1), St("D", "E", 601), St("C", "S", 401), St("D", "E", 605),
     St("R", "S", 407), St("U", "K", 608)}

StationsArgs == UNION {[1..n -> StationPool] : n \in 0..MaxStations}

ExcludeConflictingEuStations ==
    /\ call.op = "none"
    /\ \E stations \in StationsArgs :
          call' = [op |-> "exclude_conflicting_eu_stations",
                   stations |-> stations,
                   result |-> exclude_conflicting_eu_stations(stations)]
    /\ UNCHANGED <<tree_vars, pipeline_vars, observation_vars, ndppp>>

ExcludeConflictingNlStations ==
    /\ call.op = "none"
    /\ \E stations \in StationsArgs :
          call' = [op |-> "exclude_conflicting_nl_stations",
                   stations |-> stations,
                   result |-> exclude_conflicting_nl_stations(stations)]
    /\ UNCHANGED <<tree_vars, pipeline_vars, observation_vars, ndppp>>

NextStations ==
    StationList \/ ExcludeConflictingEuStations \/ ExcludeConflictingNlStations

SpecStations == InitStations /\ [][NextStations]_vars

\* ------------------------------------------------------- Beam construction
\* Beam(target_source, subband_spec, measurement_type) of beam.py and of
\* observation.py: the subband_spec is looked at first, the measurement_type
\* second.
BeamClasses == {"beam.Beam", "observation.Beam"}

Beam_new(cls, target_source, subband_spec, measurement_type_) ==
    LET spec == IF cls = "beam.Beam" THEN Beam_subband_spec(subband_spec)
                ELSE observation_Beam_subband_spec(subband_spec)
        none == [target_source |-> target_source, subband_spec |-> <<>>,
                 measurement_type |-> ""]
    IN  IF ~spec.ok THEN Raise(spec.err, none)
        ELSE IF measurement_type_ \notin {"Target", "Calibration"}
        THEN Raise("ValueError", none)
        ELSE Ok([target_source |-> target_source,
                 subband_spec |-> spec.val,
                 measurement_type |-> measurement_type_])

\* '100..103', [77, 79, 81], '4', [], [5], (77, 79, 81), (77,), (), 77, None
AnySubbandSpecArgs ==
    SubbandSpecArgs \cup
    {ListSpec(<<>>), ListSpec(<<5>>), TupleSpec(<<77, 79, 81>>),
     TupleSpec(<<77>>), TupleSpec(<<>>), IntSpec(77), NoneSpec}

MeasurementTypeArgs == {"Target", "Calibration", "Reference", "target"}

InitBeam ==
    /\ OSB_init(1..NumNodes)
    /\ last_call = NoCall
    /\ NoPipeline
    /\ NoObservation
    /\ NoNDPPP
    /\ NoFunctionCall

BeamInit ==
    /\ call.op = "none"
    /\ \E cls \in BeamClasses, target_source \in {CygA, ThreeC196},
          subband_spec \in AnySubbandSpecArgs,
          measurement_type_ \in MeasurementTypeArgs :
          call' = [op |-> "Beam", cls |-> cls, subband_spec |-> subband_spec,
                   measurement_type |-> measurement_type_,
                   result |-> Beam_new(cls, target_source, subband_spec,
                                       measurement_type_)]
    /\ UNCHANGED <<tree_vars, pipeline_vars, observation_vars, ndppp>>

NextBeam == BeamInit

SpecBeam == InitBeam /\ [][NextBeam]_vars

\* ------------------------------------------------------------------ angles
\* A number: an int or a float, as its sign bit and magnitude; -0.0 has the
\* sign bit and magnitude 0, nan compares false with everything.
PyNumber(t, neg, mag) == [t |-> t, neg |-> neg, mag |-> mag]

\* number < 0.0
lt_zero(number) == number.t # "nan" /\ number.neg /\ number.mag > 0

signum_of_sign_bit(number) == IF number.neg THEN -1 ELSE 1

signum(number) == IF lt_zero(number) THEN -1 ELSE 1

\* ['-', None, '+'][1 + signum(number)]
sign_char(number) == <<"-", "None", "+">>[1 + signum(number) + 1]

\* The message is formatted with '%r' % char: a tuple on the right of % is
\* the argument list of the one conversion.
int_from_sign_char(char) ==
    IF char = PyStr("+") THEN Ok(1)
    ELSE IF char = PyStr("-") THEN Ok(-1)
    ELSE IF char.t = "tuple" /\ char.i # 1 THEN Raise("TypeError", 0)
    ELSE Raise("ValueError", 0)

\* In the calls below Angle.rad is counted in ticks of a thousandth of a
\* second of arc; seconds of time and of arc are counted in ticks as well.
TicksPerArcsec == 1000

TicksPerDegree == 3600 * TicksPerArcsec

TicksPerSecond == 15 * TicksPerArcsec

TicksPerHour == 3600 * TicksPerSecond

\* The result of floating-point arithmetic on x: x itself or a neighbour;
\* zero stays zero.
Rounded(x, err) == IF x = 0 THEN 0 ELSE x + err

RoundingErrors == {-1, 0, 1}

Float(ticks) ==
    PyNumber("float", ticks < 0, IF ticks < 0 THEN -ticks ELSE ticks)

set_shms(sign, hours, minutes, seconds, err) ==
    LET sgn == int_from_sign_char(sign)
    IN  IF ~sgn.ok THEN sgn
        ELSE Ok(Rounded(sgn.val * (hours * TicksPerHour
                                   + minutes * 60 * TicksPerSecond + seconds),
                        err))

set_sdms(sign, degrees, minutes, seconds, err) ==
    LET sgn == int_from_sign_char(sign)
    IN  IF ~sgn.ok THEN sgn
        ELSE Ok(Rounded(sgn.val * (degrees * TicksPerDegree
                                   + minutes * 60 * TicksPerArcsec + seconds),
                        err))

set_deg(deg, err) == Rounded(deg * TicksPerDegree, err)

set_rad(rad) == rad

\* The arguments of Angle(): None, a tuple (sign, whole, minutes, seconds) or
\* a number.
AngleNone ==
    [t |-> "NoneType", sign |-> PyNone, whole |-> 0, minutes |-> 0,
     seconds |-> 0, value |-> 0]

AngleTuple(sign, whole, minutes, seconds) ==
    [t |-> "tuple", sign |-> sign, whole |-> whole, minutes |-> minutes,
     seconds |-> seconds, value |-> 0]

AngleNumber(value) ==
    [t |-> "float", sign |-> PyNone, whole |-> 0, minutes |-> 0,
     seconds |-> 0, value |-> value]

Angle_unchecked(shms, sdms, rad, deg, err) ==
    IF shms # AngleNone
    THEN set_shms(shms.sign, shms.whole, shms.minutes, shms.seconds, err)
    ELSE IF sdms # AngleNone
    THEN set_sdms(sdms.sign, sdms.whole, sdms.minutes, sdms.seconds, err)
    ELSE IF rad # AngleNone THEN Ok(set_rad(rad.value))
    ELSE Ok(set_deg(deg.value, err))

\* Angle(shms, sdms, rad, deg)
Angle(shms, sdms, rad, deg, err) ==
    LET none_count == Cardinality({k \in 1..4 :
                          <<shms, sdms, rad, deg>>[k] = AngleNone})
    IN  IF none_count # 3 THEN Raise("ValueError", 0)
        ELSE IF shms # AngleNone
        THEN set_shms(shms.sign, shms.whole, shms.minutes, shms.seconds, err)
        ELSE IF sdms # AngleNone
        THEN set_sdms(sdms.sign, sdms.whole, sdms.minutes, sdms.seconds, err)
        ELSE IF rad # AngleNone THEN Ok(set_rad(rad.value))
        ELSE Ok(set_deg(deg.value, err))

abs(x) == IF x < 0 THEN -x ELSE x

\* as_shms and as_sdms: floor() of the magnitude that the arithmetic gives
as_sexagesimal(rad, ticks_per_whole, err) ==
    LET sgn == sign_char(Float(rad))
        abs_rad == abs(rad)
        in_whole == Rounded(abs_rad, err)
        whole == in_whole \div ticks_per_whole
        in_minutes == in_whole - whole * ticks_per_whole
        minutes == in_minutes \div (ticks_per_whole \div 60)
        in_seconds == in_minutes - minutes * (ticks_per_whole \div 60)
    IN  AngleTuple(PyStr(sgn), whole, minutes, in_seconds)

as_shms(rad, err) == as_sexagesimal(rad, TicksPerHour, err)

as_sdms(rad, err) == as_sexagesimal(rad, TicksPerDegree, err)

\* -3, 0 (and -0), 3, -0.0, 0.0, -1e-30, 2.5, nan
NumberArgs ==
    {PyNumber("int", TRUE, 3), PyNumber("int", FALSE, 0),
     PyNumber("int", FALSE, 3), PyNumber("float", TRUE, 0),
     PyNumber("float", FALSE, 0), PyNumber("float", TRUE, 1),
     PyNumber("float", FALSE, 25), PyNumber("nan", FALSE, 0)}

\* '+', '-', 'f', '', '+-', ' ', 1, None, ('+',), () and ('+', '-')
CharArgs ==
    {PyStr("+"), PyStr("-"), PyStr("f"), PyStr(""), PyStr("+-"), PyStr(" "),
     PyInt(1), PyNone, PyTuple(1), PyTuple(0), PyTuple(2)}

SignArgs == {PyStr("+"), PyStr("-")}

HoursArgs == {0, 11, 23}

DegreesArgs == {0, 11, 359}

MinutesArgs == {0, 19, 59}

SecondsArgs == {0, 5, 59}

\* None, ('+', 3, 15, 30), ('-', 0, 0, 0) and ('f', 3, 15, 30)
TupleArgs ==
    {AngleNone, AngleTuple(PyStr("+"), 3, 15, 30 * TicksPerSecond),
     AngleTuple(PyStr("-"), 0, 0, 0),
     AngleTuple(PyStr("f"), 3, 15, 30 * TicksPerSecond)}

\* None, 0 and a negative number
ValueArgs == {AngleNone, AngleNumber(0), AngleNumber(-90)}

InitAngle ==
    /\ OSB_init(1..NumNodes)
    /\ last_call = NoCall
    /\ NoPipeline
    /\ NoObservation
    /\ NoNDPPP
    /\ NoFunctionCall

AngleInit ==
    /\ call.op = "none"
    /\ \E shms \in TupleArgs, sdms \in TupleArgs, rad \in ValueArgs,
          deg \in ValueArgs, err \in RoundingErrors :
          call' = [op |-> "Angle", shms |-> shms, sdms |-> sdms, rad |-> rad,
                   deg |-> deg, result |-> Angle(shms, sdms, rad, deg, err)]
    /\ UNCHANGED <<tree_vars, pipeline_vars, observation_vars, ndppp>>

Signum ==
    /\ call.op = "none"
    /\ \E number \in NumberArgs :
          call' = [op |-> "signum", number |-> number,
                   signum |-> signum(number), sign_char |-> sign_char(number)]
    /\ UNCHANGED <<tree_vars, pipeline_vars, observation_vars, ndppp>>

IntFromSignChar ==
    /\ call.op = "none"
    /\ \E char \in CharArgs :
          call' = [op |-> "int_from_sign_char", char |-> char,
                   result |-> int_from_sign_char(char)]
    /\ UNCHANGED <<tree_vars, pipeline_vars, observation_vars, ndppp>>

\* a = Angle(shms = ...); a.as_shms(); Angle(shms = a.as_shms())
AsShms ==
    /\ call.op = "none"
    /\ \E sign \in SignArgs, hours \in HoursArgs, minutes \in MinutesArgs,
          seconds \in SecondsArgs, e1, e2, e3 \in RoundingErrors :
          LET given == AngleTuple(sign, hours, minutes,
                                  seconds * TicksPerSecond)
              a == Angle(given, AngleNone, AngleNone, AngleNone, e1).val
              t == as_shms(a, e2)
          IN  call' = [op |-> "as_shms", given |-> given, rad |-> a,
                       err |-> <<e1, e2, e3>>, result |-> t,
                       again |-> Angle(t, AngleNone, AngleNone, AngleNone, e3)]
    /\ UNCHANGED <<tree_vars, pipeline_vars, observation_vars, ndppp>>

AsSdms ==
    /\ call.op = "none"
    /\ \E sign \in SignArgs, degrees \in DegreesArgs, minutes \in MinutesArgs,
          seconds \in SecondsArgs, e1, e2, e3 \in RoundingErrors :
          LET given == AngleTuple(sign, degrees, minutes,
                                  seconds * TicksPerArcsec)
              a == Angle(AngleNone, given, AngleNone, AngleNone, e1).val
              t == as_sdms(a, e2)
          IN  call' = [op |-> "as_sdms", given |-> given, rad |-> a,
                       err |-> <<e1, e2, e3>>, result |-> t,
                       again |-> Angle(AngleNone, t, AngleNone, AngleNone, e3)]
    /\ UNCHANGED <<tree_vars, pipeline_vars, observation_vars, ndppp>>

NextAngle == AngleInit \/ Signum \/ IntFromSignChar \/ AsShms \/ AsSdms

SpecAngle == InitAngle /\ [][NextAngle]_vars

\* ------------------------------------- startTime and endTime of Observation
\* Times of day are counted in tenths of a second.
\* '%02d' % n
Fmt02d(n) == IF n < 10 THEN <<"0">> \o Str_d(n) ELSE Str_d(n)

mom_timestamp(year, month, day, hours, minutes, seconds) ==
    Str_d(year) \o <<"-">> \o Fmt02d(month) \o <<"-">> \o Fmt02d(day)
    \o <<"T">> \o Fmt02d(hours) \o <<":">> \o Fmt02d(minutes) \o <<":">>
    \o Fmt02d(seconds)

\* int(round(x)) of x >= 0 given in tenths: a half goes up in Python 2 and
\* to the even neighbour in Python 3.
int_round(tenths, half_to_even) ==
    LET whole == tenths \div 10
        rest  == tenths % 10
    IN  IF rest < 5 THEN whole
        ELSE IF rest > 5 THEN whole + 1
        ELSE IF half_to_even /\ whole % 2 = 0 THEN whole
        ELSE whole + 1

\* ephem.Date(start_date) + ephem.second * duration_seconds, as a tuple: the
\* calendar carries seconds into minutes, hours and days.
ephem_sum_tuple(start_date, duration_tenths) ==
    LET total == ((start_date[4] * 60 + start_date[5]) * 600 + start_date[6]
                  + duration_tenths)
    IN  <<start_date[1], start_date[2], start_date[3] + total \div 864000,
          (total % 864000) \div 36000, (total % 36000) \div 600, total % 600>>

\* rounded_start_date and rounded_end_date: all but the last item as they
\* are, the seconds rounded.
rounded_date(date, half_to_even) ==
    <<date[1], date[2], date[3], date[4], date[5],
      int_round(date[6], half_to_even)>>

Observation_xml_times(start_date, duration_tenths, half_to_even) ==
    LET end_date == ephem_sum_tuple(start_date, duration_tenths)
        rounded_start_date == rounded_date(start_date, half_to_even)
        rounded_end_date == rounded_date(end_date, half_to_even)
    IN  [startTime |-> mom_timestamp(rounded_start_date[1],
                          rounded_start_date[2], rounded_start_date[3],
                          rounded_start_date[4], rounded_start_date[5],
                          rounded_start_date[6]),
         endTime |-> mom_timestamp(rounded_end_date[1], rounded_end_date[2],
                          rounded_end_date[3], rounded_end_date[4],
                          rounded_end_date[5], rounded_end_date[6])]

\* (2012, 1, 1..2, hours, minutes, seconds) with seconds 0, 0.5, 29.4, 59.4,
\* 59.5 and 59.9
DatesArgs ==
    {<<2012, 1, d, h, m, sec>> :
        d \in {1, 2}, h \in {0, 23}, m \in {0, 59},
        sec \in {0, 5, 294, 594, 595, 599}}

\* durations of 0 s, 0.2 s, 1 s, 30.5 s and one hour
DurationArgs == {0, 2, 10, 305, 36000}

InitTimes ==
    /\ OSB_init(1..NumNodes)
    /\ last_call = NoCall
    /\ NoPipeline
    /\ NoObservation
    /\ NoNDPPP
    /\ NoFunctionCall

ObservationXmlTimes ==
    /\ call.op = "none"
    /\ \E start_date \in DatesArgs, duration_tenths \in DurationArgs,
          half_to_even \in BOOLEAN :
          call' = [op |-> "Observation.xml", start_date |-> start_date,
                   duration |-> duration_tenths,
                   result |-> Observation_xml_times(start_date,
                                  duration_tenths, half_to_even)]
    /\ UNCHANGED <<tree_vars, pipeline_vars, observation_vars, ndppp>>

NextTimes == ObservationXmlTimes

SpecTimes == InitTimes /\ [][NextTimes]_vars

\* ======================================================== the tree's claims
IsWhitespace(ch) == ch \in {" ", "\t", "\n"}

Sanitized(s) == [i \in 1..Len(s) |-> IF IsWhitespace(s[i]) THEN "_" ELSE s[i]]

Position(list, x) ==
    (CHOOSE i \in 1..Len(list) : list[i] = x /\ \A j \in 1..(i - 1) : list[j] # x) - 1

Rooted(n) == tree_depth(n).ok

Attached(n) == parent[n] # None /\ n \in Elems(children[parent[n]].list)

RECURSIVE PathLabel(_)
PathLabel(n) ==
    IF parent[n] = None THEN Sanitized(name[n])
    ELSE PathLabel(parent[n]) \o <<".">>
         \o Str_d(Position(children[parent[n]].list, n)) \o <<".">>
         \o Sanitized(name[n])

RECURSIVE ProperPath(_, _)
ProperPath(n, fuel) ==
    /\ fuel > 0
    /\ parent[n] # None => Attached(n) /\ ProperPath(parent[n], fuel - 1)

RECURSIVE RootOf(_)
RootOf(n) == IF parent[n] = None THEN n ELSE RootOf(parent[n])

RECURSIVE ProperSubtree(_, _)
ProperSubtree(n, fuel) ==
    /\ fuel > 0
    /\ \A i \in 1..Len(children[n].list) :
          ProperSubtree(children[n].list[i], fuel - 1)

Shape(frag) == [i \in 1..Len(frag) |-> <<frag[i].t, frag[i].n>>]

RECURSIVE FragmentOf(_)
FragmentOf(n) ==
    LET kids == children[n].list
        item(i) == <<Tok("item_open", i - 1, 0)>> \o FragmentOf(kids[i])
                   \o <<Tok("item_close", i - 1, 0)>>
    IN  xml_prefix(n)
        \o (IF Len(kids) = 0 THEN <<>>
            ELSE <<Tok("children_open", n, 0)>>
                 \o Concat([i \in 1..Len(kids) |-> item(i)])
                 \o <<Tok("children_close", n, 0)>>)
        \o xml_suffix(n)

\* C1: xml() of every node is its prefix once, then (only with children) one
\* children block holding child i's own xml() in an item of index i, in list
\* order, then its suffix once.
C1_XmlIsPrefixChildrenSuffix ==
    \A n \in Nodes :
        Rooted(n) /\ ProperSubtree(n, Fuel) =>
            /\ xml(n).ok
            /\ Shape(xml(n).val) = Shape(FragmentOf(n))

\* C2: label() of an attached node is parent.label() + '.' + its index in
\* parent.children + '.' + its sanitized name, of a node without parent its
\* sanitized name; no label holds a whitespace character.
C2_LabelIsSanitizedPath ==
    \A n \in Nodes :
        ProperPath(n, Fuel) =>
            /\ label(n).ok
            /\ label(n).val = PathLabel(n)
            /\ \A i \in 1..Len(label(n).val) : ~IsWhitespace(label(n).val[i])

\* C3: no two distinct nodes of one tree assembled by append_child have the
\* same label(), and label() is the one of the node's current position.
C3_LabelsUniqueInTree ==
    \A n, m \in Nodes :
        /\ n # m
        /\ ProperPath(n, Fuel) /\ ProperPath(m, Fuel)
        /\ RootOf(n) = RootOf(m)
        => /\ label(n).ok /\ label(m).ok
           /\ label(n).val # label(m).val

\* C4: p.child_id(c) returns the position of the object c in p.children
\* when c is in it, and fails when c is not in it or there are no children.
C4_ChildIdIsPosition ==
    \A p, c \in Nodes :
        IF c \in Elems(children[p].list)
        THEN /\ child_id(p, c).ok
             /\ children[p].list[child_id(p, c).val + 1] = c
        ELSE ~child_id(p, c).ok

\* C5: p.append_child(c) leaves p.children its previous contents (the empty
\* list if it was None) followed by c, sets c.parent to p, and changes the
\* name, parent and children of no other node.
C5_AppendChildFrame ==
    [][ last_call'.op = "append_child" =>
          LET p == last_call'.self
              c == last_call'.instance
          IN  /\ ~children'[p].is_none
              /\ children'[p].list = children[p].list \o <<c>>
              /\ parent'[c] = p
              /\ \A n \in Nodes \ {p} : children'[n] = children[n]
              /\ \A n \in Nodes \ {c} : parent'[n] = parent[n]
              /\ name' = name ]_vars

\* A second child has been appended to a node that had one.
C5_Witness ==
    LET p == last_call.self
        c == last_call.instance
    IN  /\ last_call.op = "append_child"
        /\ p # c
        /\ Len(children[p].list) = 2
        /\ children[p].list[1] \notin {p, c}
        /\ children[p].list[2] = c
        /\ parent[c] = p
        /\ parent[children[p].list[1]] = p

\* ================================================== the pipeline's claims
InputParents == {parent[input_data.list[i]] : i \in 1..Len(input_data.list)}

\* C6: without an explicit predecessor_label, predecessor() returns the label
\* of the Observation that is the parent of all input beams, and raises
\* ValueError when the input beams belong to two or more Observations.
C6_PredecessorIsTheObservation ==
    /\ predecessor_label.is_none
    /\ Len(input_data.list) > 0
    /\ None \notin InputParents
    => IF Cardinality(InputParents) = 1
       THEN \E o \in InputParents :
               /\ label(o).ok
               /\ predecessor = Ok(label(o).val)
       ELSE ~predecessor.ok /\ predecessor.err = "ValueError"


\* ================================================ the Observation's claims
LegalAntennaSets ==
    {"LBA_INNER", "LBA_OUTER", "HBA_ZERO", "HBA_ONE", "HBA_DUAL", "HBA_JOINED",
     "HBA_DUAL_INNER"}

LegalFrequencyRanges == {"LBA_LOW", "LBA_HIGH", "HBA_LOW", "HBA_MID", "HBA_HIGH"}

LegalAntennaSet(v) == v.t = "str" /\ v.s \in LegalAntennaSets

LegalFrequencyRange(v) == v.t = "str" /\ v.s \in LegalFrequencyRanges

LegalClock(v) == v \in {PyInt(160), PyInt(200)}

LegalBitMode(v) == v \in {PyInt(4), PyInt(8), PyInt(16)}

LegalStartDate(v) == v = PyTuple(6)

LegalFields(f) ==
    /\ LegalAntennaSet(f.antenna_set)
    /\ LegalFrequencyRange(f.frequency_range)
    /\ LegalClock(f.clock_mhz)
    /\ LegalBitMode(f.bit_mode)
    /\ LegalStartDate(f.start_date)

\* C7: an Observation is constructed only from a legal antenna_set,
\* frequency_range, clock, bit_mode and start_date; the fields of a
\* constructed Observation have an antenna name and an instrument filter, and
\* xml() does not fail on them.
C7_InvalidIsRejectedAtConstruction ==
    /\ obs.state = "constructed" =>
          /\ LegalFields(obs.args)
          /\ mom_antenna_name_from_mac_name(obs.self.antenna_set).ok
          /\ mom_frequency_range(obs.self.frequency_range).ok
    /\ emitted.by = "Observation.xml" => emitted.ok

\* The fields out of their legal set, by the name validate() gives them, and
\* the allowed values of each.
Offending(args) ==
    {f \in {"Observation antenna set", "Observation frequency range",
            "Observation clock frequency", "Observation observation bit mode"} :
        CASE f = "Observation antenna set" -> ~LegalAntennaSet(args.antenna_set)
          [] f = "Observation frequency range" ->
                ~LegalFrequencyRange(args.frequency_range)
          [] f = "Observation clock frequency" -> ~LegalClock(args.clock_mhz)
          [] f = "Observation observation bit mode" ->
                ~LegalBitMode(args.bit_mode)}

AllowedValues(f) ==
    CASE f = "Observation antenna set" ->
            <<"LBA_INNER", "LBA_OUTER", "HBA_ZERO", "HBA_ONE", "HBA_DUAL",
              "HBA_JOINED", "HBA_DUAL_INNER">>
      [] f = "Observation frequency range" ->
            <<"LBA_LOW", "LBA_HIGH", "HBA_LOW", "HBA_MID", "HBA_HIGH">>
      [] f = "Observation clock frequency" -> <<"160", "200">>
      [] f = "Observation observation bit mode" -> <<"4", "8", "16">>

\* C8: a constructor call with an antenna_set, frequency_range, clock_mhz or
\* bit_mode out of its legal set raises a ValueError that names such a field
\* and lists its allowed values; a constructed Observation holds the values
\* that were supplied.
C8_ValueErrorNamesTheField ==
    /\ obs.state # "none" /\ Offending(obs.args) # {} =>
          /\ obs.state = "raised"
          /\ obs.exc.err = "ValueError"
          /\ obs.exc.field \in Offending(obs.args)
          /\ obs.exc.listed = AllowedValues(obs.exc.field)
    /\ obs.state = "constructed" => obs.self = obs.args

\* value, in units of 0.00001, is within 0.00005 of num/den: it is num/den to
\* the four decimals written.
IsRounded(value, num, den) ==
    LET n == 100000 * (num % den)
        q == 100000 * (num \div den) + n \div den
        r == n % den
    IN  (IF r = 0 THEN q - 5 ELSE q - 4) <= value /\ value <= q + 5

OffsetTwice(frequency_range, clock) ==
    CASE frequency_range = "HBA_LOW" -> clock
      [] frequency_range \in {"HBA_MID", "HBA_HIGH"} -> 2 * clock
      [] frequency_range \in {"LBA_LOW", "LBA_HIGH"} -> 0

\* C9: every bandWidth emitted for a beam is (number of sub-bands) x
\* clock/1024 and every centralFrequency is mean(sub-bands) x clock/1024 plus
\* clock/2 for HBA_LOW, clock for HBA_MID and HBA_HIGH, 0 for LBA_LOW and
\* LBA_HIGH, with the clock and the range of the hosting observation.
C9_FrequenciesAreComputed ==
    \A k \in 1..Len(emitted.beams) :
        LET e == emitted.beams[k]
            sub_bands == parse_subband_list(e.beam.subband_spec)
            n == Len(sub_bands)
            clock == obs.self.clock_mhz.i
            range == obs.self.frequency_range.s
        IN  /\ IsRounded(e.bandWidth, n * clock, 1024)
            /\ IsRounded(e.centralFrequency,
                         2 * Sum(sub_bands) * clock
                            + OffsetTwice(range, clock) * n * 1024,
                         2 * n * 1024)


\* ====================================================== the NDPPP's claims
IntegerSteps(steps) ==
    /\ steps.avg_freq_step.t = "int"
    /\ steps.avg_time_step.t = "int"
    /\ steps.demix_freq_step.t = "int"
    /\ steps.demix_time_step.t = "int"

\* d is an exact multiple of a
Multiple(d, a) == \E k \in 0..MaxStep : d = k * a

DemixIsMultiple(steps) ==
    /\ Multiple(steps.demix_freq_step.i, steps.avg_freq_step.i)
    /\ Multiple(steps.demix_time_step.i, steps.avg_time_step.i)

\* C10: a constructed NDPPP has demix_freq_step a multiple of avg_freq_step
\* and demix_time_step a multiple of avg_time_step; a constructor call with
\* integer steps of which one is not such a multiple raises ValueError.
C10_DemixStepsAreMultiples ==
    /\ ndppp.state = "constructed" =>
          IntegerSteps(ndppp.self) /\ DemixIsMultiple(ndppp.self)
    /\ ndppp.state # "none" /\ IntegerSteps(ndppp.args)
          /\ ~DemixIsMultiple(ndppp.args) =>
          ndppp.state = "raised" /\ ndppp.exc.err = "ValueError"


\* ============================================= the SourceCatalogue's claims
\* The bounds of a call: what the caller passed, or the default.
MinOf(c) ==
    IF c.min_elevation_deg = PyNone THEN DefaultMinEl ELSE c.min_elevation_deg.i

MaxOf(c) ==
    IF c.max_elevation_deg = PyNone THEN DefaultMaxEl ELSE c.max_elevation_deg.i

Qualifies(row, c) == row.elevation > MinOf(c) /\ row.elevation < MaxOf(c)

BuiltFrom(target, row) ==
    target = [name |-> row.names[1], ra_angle |-> row.ra, dec_angle |-> row.dec]

\* C11: a source that closest_to_meridian returns is built from a row whose
\* elevation is above the minimum and below the maximum of the call.
C11_ReturnedSourceIsBetweenBounds ==
    call.op = "closest_to_meridian" /\ call.result.ok =>
        \E k \in 1..Len(call.sources) :
            /\ BuiltFrom(call.result.val, call.sources[k])
            /\ Qualifies(call.sources[k], call)

\* C12: when a row of the table lies between the bounds, closest_to_meridian
\* returns the source built from a qualifying row that no qualifying row
\* exceeds in elevation.
C12_HighestQualifyingRowIsReturned ==
    call.op = "closest_to_meridian"
    /\ (\E k \in 1..Len(call.sources) : Qualifies(call.sources[k], call)) =>
        /\ call.result.ok
        /\ \E k \in 1..Len(call.sources) :
              /\ BuiltFrom(call.result.val, call.sources[k])
              /\ Qualifies(call.sources[k], call)
              /\ \A j \in 1..Len(call.sources) :
                    Qualifies(call.sources[j], call) =>
                        call.sources[j].elevation <= call.sources[k].elevation

\* C13: when no row of the table lies between the bounds, closest_to_meridian
\* raises NoSuitableSourceError, and the error lists every row once, with
\* its elevation.
C13_NoSuitableSourceListsEveryRow ==
    call.op = "closest_to_meridian"
    /\ (\A k \in 1..Len(call.sources) : ~Qualifies(call.sources[k], call)) =>
        /\ ~call.result.ok
        /\ call.result.err = "NoSuitableSourceError"
        /\ Len(call.result.listed) = Len(call.sources)
        /\ \A k \in 1..Len(call.sources) :
              \E i \in 1..Len(call.result.listed) :
                  call.result.listed[i] = <<call.sources[k].names[1],
                                            call.sources[k].elevation>>

\* The rows of the calibrator table that have the name among their aliases.
RowsNamed(source_name) ==
    {row \in UNION {Elems(source_table[band]) : band \in DOMAIN source_table} :
        source_name \in Elems(row)}

\* C14: find_source of an alias of a row of the calibrator table returns the
\* source of that row and does not call simbad; simbad is called only for a
\* name that no row has.
C14_FindSourceKnowsTheAliases ==
    call.op = "find_source" =>
        /\ RowsNamed(call.source_name) # {} =>
              /\ call.result.ok
              /\ ~call.result.simbad
              /\ \E row \in RowsNamed(call.source_name) :
                    call.result.val.name = row[1]
        /\ call.result.simbad => RowsNamed(call.source_name) = {}


\* ================================================ the XML documents' claims
\* How many elements are open before position i of a text.
Depth(doc, i) ==
    Cardinality({j \in 1..(i - 1) : doc[j].t = "open"})
    - Cardinality({j \in 1..(i - 1) : doc[j].t = "close"})

\* Every closing tag closes the element opened last, and none stays open.
RECURSIVE ClosesAll(_, _)
ClosesAll(doc, open) ==
    IF Len(doc) = 0 THEN Len(open) = 0
    ELSE IF Head(doc).t = "open"
    THEN ClosesAll(Tail(doc), <<Head(doc).n>> \o open)
    ELSE IF Head(doc).t = "close"
    THEN /\ Len(open) > 0
         /\ Head(open) = Head(doc).n
         /\ ClosesAll(Tail(doc), Tail(open))
    ELSE ClosesAll(Tail(doc), open)

WellNested(doc) == ClosesAll(doc, <<>>)

\* The closing tag of the element opened at position i.
ClosingOf(doc, i) ==
    CHOOSE j \in (i + 1)..Len(doc) :
        /\ doc[j].t = "close"
        /\ Depth(doc, j) = Depth(doc, i) + 1
        /\ \A l \in (i + 1)..(j - 1) :
              ~(doc[l].t = "close" /\ Depth(doc, l) = Depth(doc, i) + 1)

\* The elements n directly inside the element opened at position i.
ChildrenOf(doc, i, n) ==
    {j \in (i + 1)..(ClosingOf(doc, i) - 1) :
        doc[j].t = "open" /\ doc[j].n = n /\ Depth(doc, j) = Depth(doc, i) + 1}

\* The k-th of a set of positions.
Kth(positions, k) ==
    CHOOSE j \in positions : Cardinality({l \in positions : l < j}) = k - 1

\* The element opened at position i holds the text v in one element n.
Holds(doc, i, n, v) ==
    Cardinality({j \in (i + 1)..(ClosingOf(doc, i) - 1) :
                    doc[j] = Leaf(n, v)}) = 1
    /\ Cardinality({j \in (i + 1)..(ClosingOf(doc, i) - 1) :
                       doc[j].t = "leaf" /\ doc[j].n = n}) = 1

Inside(doc, i) == SubSeq(doc, i + 1, ClosingOf(doc, i) - 1)

\* C16: the text of as_xml_mom_project, and of Folder.xml, is one element
\* whose children list holds one item per element of the list, in the order
\* of the list, each item enclosing that element's xml() and closed.
C16_OneItemPerElement ==
    call.op \in {"as_xml_mom_project", "Folder.xml"} =>
        LET doc == call.result
        IN  /\ WellNested(doc)
            /\ doc[1].t = "open"
            /\ ClosingOf(doc, 1) = Len(doc)
            /\ Cardinality(ChildrenOf(doc, 1, "children")) = 1
            /\ LET list == Kth(ChildrenOf(doc, 1, "children"), 1)
                   items == ChildrenOf(doc, list, "item")
               IN  /\ Cardinality(items) = Len(call.elements)
                   /\ {j \in (list + 1)..(ClosingOf(doc, list) - 1) :
                          Depth(doc, j) = Depth(doc, list) + 1
                          /\ doc[j].t # "close"} = items
                   /\ \A k \in 1..Len(call.elements) :
                         Inside(doc, Kth(items, k))
                            = element_xml(call.elements[k])

\* ================================================== the station lists' claims
EnumeratedStationSets ==
    {"superterp", "core", "remote", "nl", "europe", "all", "none"}

\* C17: station_list succeeds for each of the set names superterp, core,
\* remote, nl, europe, all and none, and fails for every other set name with
\* an InvalidStationSetError that names the set; station_list('all') is
\* station_list('nl', include=station_list('europe')).
C17_SetNamesAreTheEnumeration ==
    call.op = "station_list" =>
        /\ IF call.station_set \in EnumeratedStationSets
           THEN call.result.ok
           ELSE /\ ~call.result.ok
                /\ call.result.err = "InvalidStationSetError"
                /\ call.result.names = call.station_set
        /\ (call.station_set = "all" /\ call.include.is_none
                                     /\ call.exclude.is_none) =>
              LET eu == station_list("europe", NoneList, NoneList)
              IN  /\ eu.ok
                  /\ call.result = station_list("nl", List(eu.val), NoneList)

\* two names that differ in the case of their letters at most
SameName(a, b) ==
    /\ Len(a) = Len(b)
    /\ \A i \in 1..Len(a) :
          \/ a[i] = b[i]
          \/ ord(a[i]) >= 65 /\ ord(b[i]) = ord(a[i]) + 32
          \/ ord(b[i]) >= 65 /\ ord(a[i]) = ord(b[i]) + 32

Named(station, list) == \E i \in 1..Len(list) : SameName(station, list[i])

C19_NlWithoutRemoteIsCore ==
    (/\ call.op = "station_list"
     /\ call.station_set = "nl"
     /\ call.include.is_none
     /\ call.exclude = List(station_list("remote", NoneList, NoneList).val)) =>
        /\ call.result.ok
        /\ call.result = station_list("core", NoneList, NoneList)

C19_Witness ==
    /\ call.op = "station_list"
    /\ call.station_set = "nl"
    /\ call.include.is_none
    /\ ~call.exclude.is_none
    /\ Len(call.exclude.list) = 14
    /\ Elems(call.exclude.list) = Elems(remote)
    /\ Len(call.result.val) = 24
    /\ call.result.val[1] = St("C", "S", 1)
    /\ call.result.val[24] = St("C", "S", 501)

\* the pairs of an international and a core station that conflict
ConflictingPairs ==
    {<<St("D", "E", 601), St("C", "S", 1)>>,
     <<St("D", "E", 602), St("C", "S", 31)>>,
     <<St("D", "E", 603), St("C", "S", 28)>>,
     <<St("D", "E", 604), St("C", "S", 11)>>,
     <<St("D", "E", 605), St("C", "S", 401)>>,
     <<St("F", "R", 606), St("C", "S", 30)>>,
     <<St("S", "E", 607), St("C", "S", 301)>>,
     <<St("U", "K", 608), St("C", "S", 13)>>}

\* the member at position `member` of a pair whose other member is listed
Conflicting(station, stations, member) ==
    \E pair \in ConflictingPairs :
        /\ pair[member] = station
        /\ pair[3 - member] \in Elems(stations)

Without(stations, member) ==
    SelectSeq(stations, LAMBDA station : ~Conflicting(station, stations, member))

\* C20: exclude_conflicting_eu_stations returns its input in the original
\* order without exactly the international stations whose paired core station
\* is in the input, exclude_conflicting_nl_stations without exactly the core
\* stations whose paired international station is in the input; no result
\* holds both members of a pair.
C20_ConflictingStationsAreRemoved ==
    /\ call.op = "exclude_conflicting_eu_stations" =>
          call.result = Without(call.stations, 1)
    /\ call.op = "exclude_conflicting_nl_stations" =>
          call.result = Without(call.stations, 2)
    /\ call.op \in {"exclude_conflicting_eu_stations",
                    "exclude_conflicting_nl_stations"} =>
          \A pair \in ConflictingPairs :
              ~(pair[1] \in Elems(call.result) /\ pair[2] \in Elems(call.result))

C20_Witness ==
    /\ call.op = "exclude_conflicting_eu_stations"
    /\ call.stations = <<St("D", "E", 601), St("U", "K", 608), St("C", "S", 1)>>
    /\ call.result = <<St("U", "K", 608), St("C", "S", 1)>>

\* ================================================ the Beam constructor's claim
\* the elements of a list between commas, in list order
RECURSIVE JoinedInOrder(_)
JoinedInOrder(ints) ==
    IF ints = <<>> THEN <<>>
    ELSE IF Len(ints) = 1 THEN Str_d(ints[1])
    ELSE Str_d(ints[1]) \o <<",">> \o JoinedInOrder(Tail(ints))

\* C21: Beam construction stores a string subband_spec unchanged, turns a
\* list of integers into the comma-joined string of its elements in list
\* order, and raises ValueError for a subband_spec of any other type and for
\* a measurement_type other than 'Target' or 'Calibration'.
C21_BeamConstruction ==
    call.op = "Beam" =>
        LET known == call.measurement_type \in {"Target", "Calibration"}
        IN  /\ (call.subband_spec.t = "str" /\ known) =>
                  /\ call.result.ok
                  /\ call.result.val.subband_spec = call.subband_spec.chars
            /\ (call.subband_spec.t = "list" /\ known) =>
                  /\ call.result.ok
                  /\ call.result.val.subband_spec
                       = JoinedInOrder(call.subband_spec.ints)
            /\ (call.subband_spec.t \notin {"str", "list"} \/ ~known) =>
                  /\ ~call.result.ok
                  /\ call.result.err = "ValueError"

\* ======================================================== the angles' claims
\* how many of the four arguments of Angle() are not None
Supplied ==
    Cardinality({k \in 1..4 :
        <<call.shms, call.sdms, call.rad, call.deg>>[k].t # "NoneType"})

\* the sign of the tuple among the arguments, if there is one, is '+' or '-'
SignIsLegal ==
    \A k \in 1..2 :
        <<call.shms, call.sdms>>[k].t = "tuple" =>
            <<call.shms, call.sdms>>[k].sign \in {PyStr("+"), PyStr("-")}

C23_SignOfANumber ==
    call.op = "signum" =>
        IF call.number.t \in {"int", "float"} /\ call.number.neg
           /\ call.number.mag # 0
        THEN call.signum = -1 /\ call.sign_char = "-"
        ELSE call.signum = 1 /\ call.sign_char = "+"

C23_Witness ==
    /\ call.op = "signum"
    /\ call.number = PyNumber("float", TRUE, 0)
    /\ call.signum = 1
    /\ call.sign_char = "+"

\* C24: int_from_sign_char returns +1 for '+' and -1 for '-', and raises
\* ValueError for every other input.
C24_IntFromSignChar ==
    call.op = "int_from_sign_char" =>
        IF call.char.t = "str" /\ call.char.s = "+"
        THEN call.result.ok /\ call.result.val = 1
        ELSE IF call.char.t = "str" /\ call.char.s = "-"
        THEN call.result.ok /\ call.result.val = -1
        ELSE ~call.result.ok /\ call.result.err = "ValueError"

\* C25: as_shms and as_sdms return (sign, whole, minutes, seconds) where whole
\* is the floor of the angle's magnitude in hours resp. degrees, minutes is in
\* 0..59 and 0 <= seconds < 60, and Angle(shms=a.as_shms()) resp.
\* Angle(sdms=a.as_sdms()) is the same angle as a, negative angles included.
C25_SexagesimalRoundTrip ==
    call.op \in {"as_shms", "as_sdms"} =>
        LET per_whole == IF call.op = "as_shms" THEN TicksPerHour
                         ELSE TicksPerDegree
            magnitude == IF call.rad < 0 THEN -call.rad ELSE call.rad
        IN  /\ call.result.sign = (IF call.rad < 0 THEN PyStr("-") ELSE PyStr("+"))
            /\ call.result.whole = magnitude \div per_whole
            /\ call.result.minutes \in 0..59
            /\ call.result.seconds >= 0
            /\ call.result.seconds < per_whole \div 60
            /\ call.again.ok
            /\ call.again.val = call.rad

\* ================================================ the tree's claims, continued
\* the number of parent links from a node to the root
RECURSIVE ParentLinks(_, _)
ParentLinks(self, fuel) ==
    IF fuel = 0 \/ parent[self] = None THEN 0
    ELSE 1 + ParentLinks(parent[self], fuel - 1)

\* C26: tree_depth() is the number of parent links from the node to the root,
\* and xml() returns its whole fragment, prefix, children block and suffix,
\* indented by 2 x tree_depth() spaces.
C26_XmlIsIndentedByDepth ==
    \A self \in Nodes :
        tree_depth(self).ok =>
            /\ tree_depth(self).val = ParentLinks(self, Fuel)
            /\ xml(self).ok
            /\ \A i \in 1..Len(xml(self).val) :
                  /\ xml(self).val[i].ind >= 2 * tree_depth(self).val
                  /\ xml(self).val[i].n = self /\ xml(self).val[i].t = "prefix"
                        => xml(self).val[i].ind = 2 * tree_depth(self).val

\* C27: xml_prefix of an AveragingPipeline whose input_data is None fails with
\* the ValueError 'AveragingPipeline.input_data is None!', with and without
\* an explicit predecessor_label.
C27_NoInputDataIsValueError ==
    input_data.is_none =>
        /\ ~AveragingPipeline_xml_prefix.ok
        /\ AveragingPipeline_xml_prefix.err = "ValueError"
        /\ AveragingPipeline_xml_prefix.message
             = "AveragingPipeline.input_data is None!"

\* how often a node stands in the children lists of all nodes
Occurrences(c) ==
    Cardinality({pos \in Nodes \X (1..MaxAppends) :
        /\ pos[2] <= Len(children[pos[1]].list)
        /\ children[pos[1]].list[pos[2]] = c})

\* C28: after any sequence of append_child calls every node stands in at most
\* one children list and at most once in it, and c is an element of
\* p.children exactly when c.parent is p.
C28_ChildrenMatchParents ==
    \A c \in Nodes :
        /\ Occurrences(c) <= 1
        /\ \A p \in Nodes :
              c \in Elems(children[p].list) <=> parent[c] = p

\* the node k parent links above a node, None above a root
RECURSIVE Up(_, _)
Up(self, k) ==
    IF self = None THEN None
    ELSE IF k = 0 THEN self
    ELSE Up(parent[self], k - 1)

\* C29: after any sequence of append_child calls no node is its own ancestor,
\* and tree_depth() and label() terminate for every node.
C29_ParentLinksHaveNoCycle ==
    \A self \in Nodes :
        /\ \A k \in 1..Cardinality(Nodes) : Up(self, k) # self
        /\ tree_depth(self).err # "RuntimeError"
        /\ label(self).err # "RuntimeError"

\* ============================================= the start and end times' claim
\* the number that the two characters from position `first` on spell
FieldAt(timestamp, first) ==
    DigitValue(timestamp[first]) * 10 + DigitValue(timestamp[first + 1])

\* the seconds are the last two characters of 'YYYY-MM-DDThh:mm:ss'
SecondsOf(timestamp) == FieldAt(timestamp, Len(timestamp) - 1)

\* C30: every startTime and endTime that Observation.xml writes is a clock
\* time with seconds between 00 and 59, whatever the fraction of the seconds
\* of start_date and whatever the duration: rounding never gives 60.
C30_SecondsAreBelowSixty ==
    call.op = "Observation.xml" =>
        /\ SecondsOf(call.result.startTime) \in 0..59
        /\ SecondsOf(call.result.endTime) \in 0..59

====
